---- MODULE Spec2Model ----
(***************************************************************************)
(* LR(1) / LALR(1) table construction and the table-driven shift-reduce    *)
(* parser of the Compiler_Design repository.                               *)
(*                                                                         *)
(* Two pipelines are modelled, each from its own sources:                  *)
(*   LR   : src/LR/grammar.py, first_follow.py, lr1_items.py,              *)
(*          parsing_table.py                                               *)
(*   LALR : src/LALR/grammar.py, items.py, parsing_tables.py, parser.py    *)
(*                                                                         *)
(* A grammar text is a sequence of lines; a rule line carries its          *)
(* left-hand side and its alternatives, each a sequence of symbols (the    *)
(* result of splitting on "->", "|" and whitespace).  Python's set         *)
(* iteration order depends on the process's hash seed: it is the variable  *)
(* ord, a permutation of the symbols, fixed when the run starts; the order *)
(* in which the items of one state are visited is chosen step by step.     *)
(***************************************************************************)
EXTENDS Integers, Sequences, FiniteSets, TLC

VARIABLES
    mode,       \* "LR" or "LALR": which pipeline runs
    text,       \* the grammar text given to Grammar(...)
    ord,        \* iteration order of sets of symbols (hash seed)
    pc,         \* position in the pipeline
    grammar,    \* the Grammar object
    first_sets, \* LR: the dict returned by compute_first_sets
    automaton,  \* LR: LR1Automaton;  LALR: lr1 states, merged states
    worklist,   \* LR: worklist of compute_lr1_automaton; LALR: loop cursor
    tables,     \* action_table, goto_table, conflicts and the build cursor
    parser      \* the parser run: tokens, stack, position, steps, outcome

vars == <<mode, text, ord, pc, grammar, first_sets, automaton, worklist, tables, parser>>

-----------------------------------------------------------------------------
(* Bounds of the model *)

\* longest token sequence handed to the parser
MaxInputLen == 4
\* number of set-iteration orders tried per grammar
MaxOrders == 2
\* parser loop iterations after which a run is cut off
MaxSteps == 14
\* longest derivation used to generate sentences of a grammar
MaxDerivation == 6

-----------------------------------------------------------------------------
(* Generic helpers *)

Range(s) == {s[i] : i \in DOMAIN s}

Last(s) == s[Len(s)]

Reverse(s) == [i \in 1..Len(s) |-> s[Len(s) + 1 - i]]

\* the elements of set S in the order in which o lists them
InOrder(S, o) == SelectSeq(o, LAMBDA x : x \in S)

RECURSIVE DedupFrom(_, _, _)
DedupFrom(s, i, acc) ==
    IF i > Len(s) THEN acc
    ELSE DedupFrom(s, i + 1, IF s[i] \in Range(acc) THEN acc ELSE Append(acc, s[i]))

Dedup(s) == DedupFrom(s, 1, <<>>)

RECURSIVE Flatten(_)
Flatten(ss) == IF ss = <<>> THEN <<>> ELSE Head(ss) \o Flatten(Tail(ss))

\* the dict d with d[k] = v
Put(d, k, v) == [x \in (DOMAIN d) \cup {k} |-> IF x = k THEN v ELSE d[x]]

EmptyDict == [x \in {} |-> 0]

-----------------------------------------------------------------------------
(* Grammar texts *)

Rule(l, a) == [kind |-> "rule", lhs |-> l, alts |-> a]
Blank == [kind |-> "blank", lhs |-> "", alts |-> <<>>]
Comment == [kind |-> "comment", lhs |-> "", alts |-> <<>>]

\* S -> A A / A -> a A | b
TextAA ==
    << Rule("S", << <<"A", "A">> >>),
       Rule("A", << <<"a", "A">>, <<"b">> >>) >>

\* S -> a A / A -> b |
TextEps ==
    << Rule("S", << <<"a", "A">> >>),
       Rule("A", << <<"b">>, <<>> >>) >>

\* A -> B a | c / B -> A b | d
TextMutual ==
    << Rule("A", << <<"B", "a">>, <<"c">> >>),
       Rule("B", << <<"A", "b">>, <<"d">> >>) >>

\* E -> E + T | T / T -> T * F | F / F -> ( E ) | id
TextExpr ==
    << Rule("E", << <<"E", "+", "T">>, <<"T">> >>),
       Rule("T", << <<"T", "*", "F">>, <<"F">> >>),
       Rule("F", << <<"(", "E", ")">>, <<"id">> >>) >>

\* S -> i S | i S e S | a
TextElse ==
    << Rule("S", << <<"i", "S">>, <<"i", "S", "e", "S">>, <<"a">> >>) >>

\* S -> S | a
TextUnit ==
    << Rule("S", << <<"S">>, <<"a">> >>) >>

\* S -> A / A -> A | a
TextUnitChain ==
    << Rule("S", << <<"A">> >>),
       Rule("A", << <<"A">>, <<"a">> >>) >>

\* S -> A | B / A -> a S / B -> b
TextAlt ==
    << Rule("S", << <<"A">>, <<"B">> >>),
       Rule("A", << <<"a", "S">> >>),
       Rule("B", << <<"b">> >>) >>

\* a line that is neither blank nor a comment and holds no arrow
NoArrow(content) == [kind |-> "noarrow", lhs |-> content, alts |-> <<>>]

\* S -> a S / S -> b : two lines with the same left-hand side
TextSplit ==
    << Rule("S", << <<"a", "S">> >>),
       Rule("S", << <<"b">> >>) >>

\* # comment / (blank) / S -> a / S a : the fourth line holds no arrow
TextNoArrow ==
    << Comment, Blank, Rule("S", << <<"a">> >>), NoArrow("S a") >>

\* S -> S' a / S' -> b : the start symbol with a prime is taken
TextPrimed ==
    << Rule("S", << <<"S'", "a">> >>),
       Rule("S'", << <<"b">> >>) >>

\* S -> S' a : the start symbol with a prime occurs, but has no rule
TextPrimedUndefined ==
    << Rule("S", << <<"S'", "a">> >>) >>

\* S -> a $ : the token "$" is a terminal of the grammar
TextDollar ==
    << Rule("S", << <<"a", "$">> >>) >>

\* S -> a | S S : the state reached over S S has a transition to itself
TextSS ==
    << Rule("S", << <<"a">>, <<"S", "S">> >>) >>

LRTexts == {TextAA, TextEps, TextElse, TextUnit, TextAlt, TextSplit, TextNoArrow,
            TextPrimed, TextSS, TextDollar, TextPrimedUndefined}

\* A -> B A | c / B -> A b | d : a nonterminal follows the one after the dot
TextMutualBeta ==
    << Rule("A", << <<"B", "A">>, <<"c">> >>),
       Rule("B", << <<"A", "b">>, <<"d">> >>) >>

LALRTexts == {TextAA, TextEps, TextMutual, TextExpr, TextElse, TextUnit, TextAlt,
              TextSplit, TextNoArrow, TextPrimed, TextMutualBeta, TextUnitChain,
              TextDollar}

\* Grammar.epsilon of the LR module (the Greek letter epsilon in the source)
LREpsilon == "EPSILON"

\* the end marker
EndMarker == "$"

\* the lines that survive the blank/comment filter
RuleLines(t) == SelectSeq(t, LAMBDA l : l.kind \notin {"blank", "comment"})

\* the lines of a text that declare productions
Declarations(t) == SelectSeq(t, LAMBDA l : l.kind = "rule")

\* every symbol of a text, in order of first occurrence
TextSymbols(t) ==
    Dedup(Flatten([i \in 1..Len(Declarations(t)) |->
        <<Declarations(t)[i].lhs>> \o Flatten(Declarations(t)[i].alts)]))

\* the orders in which a set of this text's symbols may be iterated
Orders(t) ==
    LET base == TextSymbols(t) \o <<LREpsilon>>
        fam  == <<base, Reverse(base),
                  Tail(base) \o <<Head(base)>>,
                  Reverse(Tail(base) \o <<Head(base)>>)>>
    IN  {fam[k] : k \in 1..(IF MaxOrders < Len(fam) THEN MaxOrders ELSE Len(fam))}

-----------------------------------------------------------------------------
(* LR module: Grammar (src/LR/grammar.py) *)

\* error, error_line, error_text: the ValueError that ended the construction,
\* with the number and the line its message names
EmptyLRGrammar ==
    [productions |-> <<>>, non_terminals |-> {}, terminals |-> {},
     start_symbol |-> "", error |-> "", error_line |-> 0, error_text |-> ""]

\* the characters of a stripped line of the text
RECURSIVE JoinWith(_, _)
JoinWith(words, sep) ==
    IF words = <<>> THEN ""
    ELSE IF Len(words) = 1 THEN words[1]
    ELSE words[1] \o sep \o JoinWith(Tail(words), sep)

LineText(l) ==
    IF l.kind = "noarrow" THEN l.lhs
    ELSE JoinWith(<<l.lhs, "->">> \o
                  (IF l.alts = <<>> THEN <<>>
                   ELSE <<JoinWith([j \in 1..Len(l.alts) |-> JoinWith(l.alts[j], " ")], " | ")>>),
                  " ")

\* the loop over the symbols of one alternative (lines 71-73)
RECURSIVE AddTerminals(_, _, _)
AddTerminals(symbols, k, G) ==
    IF k > Len(symbols) THEN G
    ELSE AddTerminals(symbols, k + 1,
            IF symbols[k] # LREpsilon /\ symbols[k] \notin G.non_terminals
            THEN [G EXCEPT !.terminals = @ \cup {symbols[k]}]
            ELSE G)

\* the loop over the alternatives of one line (lines 58-73)
RECURSIVE ParseAlternatives(_, _, _, _)
ParseAlternatives(alts, j, lhs, G) ==
    IF j > Len(alts) THEN G
    ELSE IF alts[j] = <<>>
    THEN ParseAlternatives(alts, j + 1, lhs,
            [G EXCEPT !.productions = Append(@, <<lhs, <<LREpsilon>> >>)])
    ELSE ParseAlternatives(alts, j + 1, lhs,
            AddTerminals(alts[j], 1,
                [G EXCEPT !.productions = Append(@, <<lhs, alts[j]>>)]))

\* Grammar._parse_grammar: the loop over the filtered lines
RECURSIVE ParseLines(_, _, _)
ParseLines(lines, i, G) ==
    IF i > Len(lines) THEN G
    ELSE IF lines[i].kind = "noarrow"
    THEN [G EXCEPT !.error = "Missing production arrow", !.start_symbol = "",
                   !.error_line = i, !.error_text = LineText(lines[i])]
    ELSE IF lines[i].lhs = ""
    THEN [G EXCEPT !.error = "Empty left-hand side", !.start_symbol = "",
                   !.error_line = i, !.error_text = LineText(lines[i])]
    ELSE LET lhs == lines[i].lhs
             G1  == [G EXCEPT !.non_terminals = @ \cup {lhs},
                              !.terminals = @ \ {lhs},
                              !.start_symbol = IF @ = "" THEN lhs ELSE @]
         IN  ParseLines(lines, i + 1, ParseAlternatives(lines[i].alts, 1, lhs, G1))

_parse_grammar(t) == ParseLines(RuleLines(t), 1, EmptyLRGrammar)

\* the while loop of _augment_grammar: append primes until the name is fresh
RECURSIVE FreshStart(_, _)
FreshStart(name, non_terminals) ==
    IF name \in non_terminals THEN FreshStart(name \o "'", non_terminals) ELSE name

\* Grammar._augment_grammar
_augment_grammar(G) ==
    IF G.start_symbol = ""
    THEN [G EXCEPT !.error = IF @ = "" THEN "Cannot augment grammar" ELSE @]
    ELSE LET new_start == FreshStart(G.start_symbol \o "'", G.non_terminals)
         IN  [G EXCEPT !.non_terminals = @ \cup {new_start},
                       !.productions = <<<<new_start, <<G.start_symbol>> >>>> \o @,
                       !.start_symbol = new_start]

\* Grammar.__init__ of the LR module
LRGrammar(t) == _augment_grammar(_parse_grammar(t))

\* Grammar.get_productions_for
get_productions_for(G, non_terminal) ==
    SelectSeq(G.productions, LAMBDA p : p[1] = non_terminal)

\* Grammar.get_production_number: list.index, or -1
get_production_number(G, lhs, rhs) ==
    IF \E n \in 1..Len(G.productions) : G.productions[n] = <<lhs, rhs>>
    THEN (CHOOSE n \in 1..Len(G.productions) :
            /\ G.productions[n] = <<lhs, rhs>>
            /\ \A m \in 1..(n - 1) : G.productions[m] # <<lhs, rhs>>) - 1
    ELSE -1

-----------------------------------------------------------------------------
(* LR module: FIRST sets (src/LR/first_follow.py) *)

\* a faulty variant of the initialisation: the terminals start, like the
\* nonterminals, with an empty set
InitialFirstWithoutTerminals(G) ==
    [x \in G.non_terminals \cup G.terminals \cup {LREpsilon} |->
        IF x = LREpsilon THEN {x} ELSE {}]

\* lines 19-26: the dict before the fixed-point loop
InitialFirst(G) ==
    [x \in G.non_terminals \cup G.terminals \cup {LREpsilon} |->
        IF x \in G.terminals \/ x = LREpsilon THEN {x} ELSE {}]

\* lines 44-58: the scan of one right-hand side; st = [first, changes, all]
RECURSIVE ScanRhs(_, _, _, _)
ScanRhs(lhs, rhs, k, st) ==
    IF k > Len(rhs) THEN st
    ELSE LET symbol == rhs[k]
             f0  == IF symbol \in DOMAIN st.first THEN st.first
                    ELSE Put(st.first, symbol, {symbol})
             add == f0[symbol] \ {LREpsilon}
             f1  == [f0 EXCEPT ![lhs] = @ \cup add]
             ch  == st.changes \/ ~(add \subseteq f0[lhs])
         IN  IF LREpsilon \notin f1[symbol]
             THEN [first |-> f1, changes |-> ch, all |-> FALSE]
             ELSE ScanRhs(lhs, rhs, k + 1, [first |-> f1, changes |-> ch, all |-> TRUE])

\* lines 32-64: one production inside the loop
FirstOfProduction(G, lhs, rhs, st) ==
    IF rhs[1] = LREpsilon
    THEN [first   |-> [st.first EXCEPT ![lhs] = @ \cup {LREpsilon}],
          changes |-> st.changes \/ LREpsilon \notin st.first[lhs]]
    ELSE LET r == ScanRhs(lhs, rhs, 1, [first |-> st.first, changes |-> st.changes, all |-> TRUE])
         IN  IF r.all /\ Len(rhs) > 0
             THEN [first   |-> [r.first EXCEPT ![lhs] = @ \cup {LREpsilon}],
                   changes |-> r.changes \/ LREpsilon \notin r.first[lhs]]
             ELSE [first |-> r.first, changes |-> r.changes]

\* lines 29-67: one iteration of the while loop, over all productions in order
RECURSIVE FirstPassFrom(_, _, _)
FirstPassFrom(G, n, st) ==
    IF n > Len(G.productions) THEN st
    ELSE FirstPassFrom(G, n + 1,
            FirstOfProduction(G, G.productions[n][1], G.productions[n][2], st))

FirstPass(G, first) == FirstPassFrom(G, 1, [first |-> first, changes |-> FALSE])

\* compute_first_sets run to its end (used where the code calls it as a whole)
RECURSIVE FirstFix(_, _)
FirstFix(G, first) ==
    LET r == FirstPass(G, first)
    IN  IF r.changes THEN FirstFix(G, r.first) ELSE r.first

compute_first_sets(G) == FirstFix(G, InitialFirst(G))

-----------------------------------------------------------------------------
(* LR module: items, closure, goto, automaton (src/LR/lr1_items.py) *)

LR1Item(production, dot_position, lookahead) ==
    [lhs |-> production[1], rhs |-> production[2],
     dot_position |-> dot_position, lookahead |-> lookahead]

\* LR1Item.get_next_symbol; None is modelled by the string "None"
None == "None"

get_next_symbol(item) ==
    IF item.dot_position < Len(item.rhs) THEN item.rhs[item.dot_position + 1] ELSE None

advance_dot(item) == [item EXCEPT !.dot_position = @ + 1]

\* lines 139-146 of compute_first_of_string: the scan; st = [result, all]
RECURSIVE FirstOfStringScan(_, _, _, _)
FirstOfStringScan(first, string, k, st) ==
    IF k > Len(string) THEN st
    ELSE LET res == st.result \cup (first[string[k]] \ {LREpsilon})
         IN  IF LREpsilon \notin first[string[k]]
             THEN [result |-> res, all |-> FALSE]
             ELSE FirstOfStringScan(first, string, k + 1, [result |-> res, all |-> TRUE])

\* a faulty variant of compute_first_of_string: the empty string yields no
\* lookahead at all
compute_first_of_string_dropping(first, string, lookahead) ==
    IF string = <<>> THEN {}
    ELSE LET r == FirstOfStringScan(first, string, 1, [result |-> {}, all |-> TRUE])
         IN  IF r.all THEN r.result \cup {lookahead} ELSE r.result

compute_first_of_string(first, string, lookahead) ==
    IF string = <<>> THEN {lookahead}
    ELSE LET r == FirstOfStringScan(first, string, 1, [result |-> {}, all |-> TRUE])
         IN  IF r.all THEN r.result \cup {lookahead} ELSE r.result

\* the items one worklist item adds (lines 171-190), whether or not already present
ItemsFor(item, G, first) ==
    LET next_symbol == get_next_symbol(item)
    IN  IF next_symbol \in G.non_terminals
        THEN LET beta == SubSeq(item.rhs, item.dot_position + 2, Len(item.rhs))
                 las  == compute_first_of_string(first, beta, item.lookahead)
                 ps   == get_productions_for(G, next_symbol)
             IN  {LR1Item(ps[n], 0, b) : n \in DOMAIN ps, b \in las}
        ELSE {}

\* compute_closure: the worklist loop.  The closure set it returns does not
\* depend on the order in which the worklist is served, so the worklist is a set.
RECURSIVE ClosureLoop(_, _, _, _)
ClosureLoop(closure, work, G, first) ==
    IF work = {} THEN closure
    ELSE LET new == (UNION {ItemsFor(item, G, first) : item \in work}) \ closure
         IN  ClosureLoop(closure \cup new, new, G, first)

compute_closure(items, G, first) == ClosureLoop(items, items, G, first)

\* a faulty variant of compute_goto: the items with the dot moved over the
\* symbol, without their closure
compute_goto_kernel(state_items, symbol, G, first) ==
    {advance_dot(item) : item \in {it \in state_items : get_next_symbol(it) = symbol}}

compute_goto(state_items, symbol, G, first) ==
    compute_closure({advance_dot(item) : item \in
                        {it \in state_items : get_next_symbol(it) = symbol}}, G, first)

\* hash(state.items), the key of LR1Automaton.state_map: an integer of the
\* width of a machine word, equal for equal item sets. Item sets that differ
\* have different hashes except where the hash seed of the run makes two of
\* them collide: collisions maps an item set to the item set whose hash it
\* shares. The hash of an item set is represented by the item set that was
\* hashed first among those that share it.
Hash(collisions, items) ==
    IF items \in DOMAIN collisions THEN collisions[items] ELSE items

LR1State(items) == [items |-> items, transitions |-> EmptyDict]

\* states, state_map: the fields of LR1Automaton. state_idx, symbols: the
\* locals of compute_lr1_automaton, the state popped from the worklist (none:
\* the empty sequence) and the rest of the loop over its symbols. collides,
\* collisions: the hash function of the process, see Hash and HashesFor.
EmptyAutomaton ==
    [states |-> <<>>, state_map |-> EmptyDict, state_idx |-> <<>>, symbols |-> <<>>,
     collides |-> FALSE, collisions |-> EmptyDict]

\* LR1Automaton.add_state: [automaton, index]; indices count from 0
add_state(A, state) ==
    LET state_hash == Hash(A.collisions, state.items)
    IN  IF state_hash \in DOMAIN A.state_map
        THEN [automaton |-> A, index |-> A.state_map[state_hash]]
        ELSE [automaton |-> [A EXCEPT !.states    = Append(A.states, state),
                                      !.state_map = Put(A.state_map, state_hash,
                                                        Len(A.states))],
              index |-> Len(A.states)]

\* lines 246-250: the symbols that follow a dot in a state
NextSymbols(items) == {get_next_symbol(item) : item \in items} \ {None}

\* lines 253-266: the loop over the symbols of the popped state;
\* st = [automaton, worklist]
RECURSIVE ForSymbols(_, _, _, _, _, _)
ForSymbols(symbols, k, state_idx, st, G, first) ==
    IF k > Len(symbols) THEN st
    ELSE LET symbol     == symbols[k]
             items      == st.automaton.states[state_idx + 1].items
             next_items == compute_goto(items, symbol, G, first)
         IN  IF next_items = {}
             THEN ForSymbols(symbols, k + 1, state_idx, st, G, first)
             ELSE LET r  == add_state(st.automaton, LR1State(next_items))
                      A1 == [r.automaton EXCEPT
                                !.states[state_idx + 1].transitions =
                                    Put(@, symbol, r.index)]
                      w1 == IF r.index = Len(A1.states) - 1
                            THEN Append(st.worklist, r.index)
                            ELSE st.worklist
                  IN  ForSymbols(symbols, k + 1, state_idx,
                                 [automaton |-> A1, worklist |-> w1], G, first)

\* lines 228-240 of compute_lr1_automaton: the initial state
InitialAutomaton(G, first) ==
    LET initial_item  == LR1Item(<<G.start_symbol, G.productions[1][2]>>, 0, EndMarker)
        initial_items == compute_closure({initial_item}, G, first)
        r == add_state(EmptyAutomaton, LR1State(initial_items))
    IN  [automaton |-> r.automaton, worklist |-> <<r.index>>]

\* lines 241-266: one iteration of the while loop
AutomatonIteration(A, wl, order, G, first) ==
    LET state_idx == Last(wl)
        rest      == SubSeq(wl, 1, Len(wl) - 1)
        symbols   == InOrder(NextSymbols(A.states[state_idx + 1].items), order)
    IN  ForSymbols(symbols, 1, state_idx, [automaton |-> A, worklist |-> rest], G, first)

\* lines 241-250: the while test, the pop and the symbols of the popped state
PopState(A, wl, order) ==
    LET state_idx == Last(wl)
        symbols   == InOrder(NextSymbols(A.states[state_idx + 1].items), order)
    IN  [automaton |-> [A EXCEPT !.state_idx = IF symbols = <<>> THEN <<>>
                                               ELSE <<state_idx>>,
                                 !.symbols   = symbols],
         worklist  |-> SubSeq(wl, 1, Len(wl) - 1)]

\* lines 253-266: the body of the loop over the symbols, for the next symbol
SymbolIteration(A, wl, G, first) ==
    LET r    == ForSymbols(<<Head(A.symbols)>>, 1, A.state_idx[1],
                           [automaton |-> A, worklist |-> wl], G, first)
        rest == Tail(A.symbols)
    IN  [automaton |-> [r.automaton EXCEPT !.symbols   = rest,
                                           !.state_idx = IF rest = <<>> THEN <<>> ELSE @],
         worklist  |-> r.worklist]

\* the item sets whose hash the hash of a new item set can be under the hash
\* seed of the run: its own, or, under a seed that makes two item sets of the
\* grammar collide, that of an item set hashed before
HashesFor(A, items) ==
    IF A.collides /\ A.collisions = EmptyDict /\ items \notin DOMAIN A.state_map
    THEN {items} \cup DOMAIN A.state_map
    ELSE {items}

\* the hash function of the run after it has hashed items to hashed
Hashed(A, items, hashed) ==
    IF hashed = items THEN A ELSE [A EXCEPT !.collisions = Put(@, items, hashed)]

-----------------------------------------------------------------------------
(* LR module: construct_parsing_table (src/LR/parsing_table.py) *)

\* tables.proposed and tables.first_written are history variables, which the
\* code does not keep: every (state, symbol, action) the construction proposed,
\* and for each cell the action that was proposed (and written) first.
EmptyTables ==
    [action_table |-> EmptyDict, goto_table |-> EmptyDict, conflicts |-> <<>>,
     state_idx |-> 0, shifted |-> FALSE, visited |-> {},
     proposed |-> {}, first_written |-> EmptyDict]

Conflict(kind, state, symbol, action1, action2) ==
    [kind |-> kind, state |-> state, symbol |-> symbol,
     action1 |-> action1, action2 |-> action2]

Propose(T, state, symbol, action) ==
    [T EXCEPT !.proposed = @ \cup {<<state, symbol, action>>},
              !.first_written = IF <<state, symbol>> \in DOMAIN @ THEN @
                                ELSE Put(@, <<state, symbol>>, action)]

\* lines 33-50: an item with the dot before a terminal
LRShiftCase(T, state_idx, state, next_symbol) ==
    IF next_symbol \in DOMAIN state.transitions
    THEN LET action == <<"shift", state.transitions[next_symbol]>>
             cell   == <<state_idx, next_symbol>>
             T1     == Propose(T, state_idx, next_symbol, action)
             T2     == IF cell \in DOMAIN T1.action_table /\ T1.action_table[cell][1] = "reduce"
                       THEN [T1 EXCEPT !.conflicts =
                                Append(@, Conflict("Shift-reduce", state_idx, next_symbol, None, None))]
                       ELSE T1
         IN  [T2 EXCEPT !.action_table = Put(@, cell, action)]
    ELSE T

\* line 55: the test for the completed augmented item
IsAcceptItem(item, G) ==
    /\ item.lhs = G.start_symbol
    /\ item.rhs = G.productions[1][2]
    /\ item.lookahead = EndMarker

\* lines 53-75: an item with the dot at the end
LRReduceCase(T, state_idx, item, G) ==
    IF IsAcceptItem(item, G)
    THEN [Propose(T, state_idx, EndMarker, <<"accept", None>>) EXCEPT
            !.action_table = Put(@, <<state_idx, EndMarker>>, <<"accept", None>>)]
    ELSE LET production_num == get_production_number(G, item.lhs, item.rhs)
             action == <<"reduce", production_num>>
             cell   == <<state_idx, item.lookahead>>
             T1     == Propose(T, state_idx, item.lookahead, action)
         IN  IF cell \in DOMAIN T1.action_table /\ T1.action_table[cell][1] = "shift"
             THEN [T1 EXCEPT !.conflicts =
                      Append(@, Conflict("Shift-reduce", state_idx, item.lookahead, None, None))]
             ELSE IF cell \in DOMAIN T1.action_table /\ T1.action_table[cell][1] = "reduce"
             THEN [T1 EXCEPT !.conflicts =
                      Append(@, Conflict("Reduce-reduce", state_idx, item.lookahead, None, None))]
             ELSE [T1 EXCEPT !.action_table = Put(@, cell, action)]

\* lines 29-75: the body of the loop over the items of a state
LRTableItem(T, state_idx, state, item, G) ==
    LET next_symbol == get_next_symbol(item)
    IN  IF next_symbol \in G.terminals
        THEN LRShiftCase(T, state_idx, state, next_symbol)
        ELSE IF next_symbol = None
        THEN LRReduceCase(T, state_idx, item, G)
        ELSE T

\* a faulty variant of the goto loop: it keeps the transitions on terminals
\* instead of those on nonterminals
LRTableGotosOnTerminals(T, state_idx, state, G) ==
    LET ts == {sym \in DOMAIN state.transitions : sym \in G.terminals}
    IN  [T EXCEPT !.goto_table =
            [c \in (DOMAIN @) \cup {<<state_idx, sym>> : sym \in ts} |->
                IF c[1] = state_idx /\ c[2] \in ts THEN state.transitions[c[2]] ELSE @[c]]]

\* lines 78-80: the goto entries of a state
LRTableGotos(T, state_idx, state, G) ==
    LET nts == {sym \in DOMAIN state.transitions : sym \in G.non_terminals}
    IN  [T EXCEPT !.goto_table =
            [c \in (DOMAIN @) \cup {<<state_idx, sym>> : sym \in nts} |->
                IF c[1] = state_idx /\ c[2] \in nts THEN state.transitions[c[2]] ELSE @[c]]]

-----------------------------------------------------------------------------
(* The parser: Grammar.parse_input and Grammar.test_input (src/LR/grammar.py) *)

\* dict.get's None where a state index is expected (test_input, line 270)
NoState == -1

\* no cell of a table
NoCell == <<NoState, "">>

\* iterations: how often the body of the while loop was entered;
\* dropped: the cell by which the goto_table argument of the call differs
\* from the table construct_parsing_table returned (NoCell: by none)
IdleParser ==
    [driver |-> "", tokens |-> <<>>, stack |-> <<>>, position |-> 0,
     steps |-> <<>>, outcome |-> "", error |-> "", dropped |-> NoCell,
     iterations |-> 0]

\* a faulty variant of the initialisation: the stack starts with state 1
StartParserOnStateOne(driver, input) ==
    [driver |-> driver, tokens |-> Append(input, EndMarker), stack |-> <<1>>,
     position |-> 0, steps |-> <<>>, outcome |-> "running", error |-> "",
     dropped |-> NoCell, iterations |-> 0]

\* lines 125-135 / 219-226: tokens, stack [0], cursor 0, empty trace
StartParser(driver, input) ==
    [driver |-> driver, tokens |-> Append(input, EndMarker), stack |-> <<0>>,
     position |-> 0, steps |-> <<>>, outcome |-> "running", error |-> "",
     dropped |-> NoCell, iterations |-> 0]

\* the goto_table argument of parse_input and test_input
PassedGoto(goto_table, dropped) ==
    [c \in (DOMAIN goto_table) \ {dropped} |-> goto_table[c]]

Step(stack, position, action) ==
    [stack |-> stack, position |-> position, action |-> action]

\* a faulty variant of the missing-ACTION return: the failing step is not
\* left in the trace
MissingActionUnrecorded(P, marker) ==
    [P EXCEPT !.outcome = "failure", !.error = "No action defined"]

\* ACTION has no entry for (state, symbol): the step recorded for this
\* iteration gets the error marker and the parser returns failure
MissingAction(P, marker) ==
    [P EXCEPT !.steps = Append(@, Step(P.stack, P.position, marker)),
              !.outcome = "failure", !.error = "No action defined"]

\* the stack with its n topmost entries popped
Pop(stack, n) == SubSeq(stack, 1, Len(stack) - n)

\* tokens[position] with the cursor behind the last token: IndexError is
\* raised before the step is recorded, and the call does not return
CursorPastTokens(P) == [P EXCEPT !.outcome = "raised", !.error = "IndexError"]

\* Grammar.parse_input, lines 137-200: one iteration of the while loop
LRParseInputStep(P, G, action_table, goto_table) ==
    LET state  == Last(P.stack)
        symbol == P.tokens[P.position + 1]
        cell   == <<state, symbol>>
    IN  IF P.position >= Len(P.tokens)
        THEN CursorPastTokens(P)
        ELSE IF cell \notin DOMAIN action_table
        THEN MissingAction(P, <<"ERROR", "No action defined">>)
        ELSE LET action == action_table[cell]
                 rec    == Step(P.stack, P.position, action)
             IN  IF action[1] = "shift"
                 THEN [P EXCEPT !.steps = Append(@, rec),
                                !.stack = @ \o <<symbol, action[2]>>,
                                !.position = @ + 1]
                 ELSE IF action[1] = "reduce"
                 THEN LET lhs    == G.productions[action[2] + 1][1]
                          rhs    == G.productions[action[2] + 1][2]
                          popped == Pop(P.stack, 2 * Len(rhs))
                          state2 == Last(popped)
                      IN  IF <<state2, lhs>> \notin DOMAIN goto_table
                          THEN [P EXCEPT
                                  !.steps = Append(@, Step(P.stack, P.position, <<"ERROR", "No goto defined">>)),
                                  !.stack = Append(popped, lhs),
                                  !.outcome = "failure", !.error = "No goto defined"]
                          ELSE [P EXCEPT
                                  !.steps = Append(@, rec),
                                  !.stack = popped \o <<lhs, goto_table[<<state2, lhs>>]>>]
                 ELSE \* accept
                      [P EXCEPT !.steps = Append(@, Step(P.stack, P.position, <<"ACCEPT", None>>)),
                                !.outcome = "success"]

\* Grammar.test_input, lines 228-278: one iteration of the while loop
LRTestInputStep(P, G, action_table, goto_table) ==
    LET state  == Last(P.stack)
        symbol == IF P.position < Len(P.tokens) THEN P.tokens[P.position + 1] ELSE EndMarker
        cell   == <<state, symbol>>
    IN  IF cell \notin DOMAIN action_table
        THEN MissingAction(P, <<"ERROR", "No action defined">>)
        ELSE LET action == action_table[cell]
                 rec    == Step(P.stack, P.position, action)
             IN  IF action[1] = "shift"
                 THEN [P EXCEPT !.steps = Append(@, rec),
                                !.stack = @ \o <<symbol, action[2]>>,
                                !.position = @ + 1]
                 ELSE IF action[1] = "reduce"
                 THEN LET lhs    == G.productions[action[2] + 1][1]
                          rhs    == G.productions[action[2] + 1][2]
                          popped == Pop(P.stack, 2 * Len(rhs))
                          goto_state == IF <<Last(popped), lhs>> \in DOMAIN goto_table
                                        THEN goto_table[<<Last(popped), lhs>>]
                                        ELSE NoState
                      IN  [P EXCEPT !.steps = Append(@, rec),
                                    !.stack = popped \o <<lhs, goto_state>>]
                 ELSE [P EXCEPT !.steps = Append(@, Step(P.stack, P.position, <<"ACCEPT", None>>)),
                                !.outcome = "success"]

\* the token sequences handed to the parser, input_string.split(): every
\* sequence of length 0..MaxInputLen of the grammar's terminals and the token
\* "$"; any other token has no ACTION entry, as a terminal has in most states
RECURSIVE SeqsUpTo(_, _)
SeqsUpTo(S, n) ==
    IF n = 0 THEN {<<>>}
    ELSE LET shorter == SeqsUpTo(S, n - 1)
         IN  shorter \cup {Append(w, x) : w \in {v \in shorter : Len(v) = n - 1}, x \in S}

Inputs(terminals) == SeqsUpTo(terminals \cup {EndMarker}, MaxInputLen)

-----------------------------------------------------------------------------
(* LALR module: Grammar (src/LALR/grammar.py) *)

\* the empty string: epsilon in the FIRST sets of the LALR module
Eps == ""

\* d[k] of a defaultdict(set): the empty set where k is missing
Get(d, k) == IF k \in DOMAIN d THEN d[k] ELSE {}

\* rules is an insertion-ordered dict: a sequence of <<lhs, productions>> pairs
RuleKeys(rules) == [n \in 1..Len(rules) |-> rules[n][1]]

HasRule(rules, lhs) == \E n \in 1..Len(rules) : rules[n][1] = lhs

\* rules[lhs]
RulesOf(rules, lhs) == rules[CHOOSE n \in 1..Len(rules) : rules[n][1] = lhs][2]

\* rules[lhs] = productions: a key already present keeps its place
SetRule(rules, lhs, productions) ==
    IF HasRule(rules, lhs)
    THEN [n \in 1..Len(rules) |-> IF rules[n][1] = lhs THEN <<lhs, productions>> ELSE rules[n]]
    ELSE Append(rules, <<lhs, productions>>)

\* parse_grammar_input: the loop over the lines; a blank line is skipped, a
\* line without exactly one arrow makes the unpacking of split("->") raise
RECURSIVE ParseGrammarLines(_, _, _)
ParseGrammarLines(t, i, r) ==
    IF i > Len(t) THEN r
    ELSE IF t[i].kind = "blank" THEN ParseGrammarLines(t, i + 1, r)
    ELSE IF t[i].kind # "rule" THEN [r EXCEPT !.error = "ValueError"]
    ELSE ParseGrammarLines(t, i + 1,
            [r EXCEPT !.rules = SetRule(@, t[i].lhs, t[i].alts)])

parse_grammar_input(t) == ParseGrammarLines(t, 1, [rules |-> <<>>, error |-> ""])

\* Grammar.get_symbols: <<terminals, non_terminals>>
get_symbols(rules) ==
    LET non_terminals == Range(RuleKeys(rules))
        used == UNION {UNION {Range(rules[n][2][m]) : m \in 1..Len(rules[n][2])} :
                        n \in 1..Len(rules)}
    IN  <<{symbol \in used : symbol \notin non_terminals}, non_terminals>>

\* Grammar.compute_first_sets: first_of with its memo dict threaded through;
\* each operator returns the dict, first_of also the set it returns
RECURSIVE first_of(_, _, _, _, _), FirstOfSymbols(_, _, _, _, _, _, _),
          FirstOfProductions(_, _, _, _, _, _, _)
first_of(rules, terminals, symbol, visited, first) ==
    IF symbol \in terminals THEN [ret |-> {symbol}, first |-> first]
    ELSE IF symbol \in visited THEN [ret |-> {}, first |-> first]
    ELSE IF symbol \in DOMAIN first THEN [ret |-> first[symbol], first |-> first]
    ELSE LET prods == IF HasRule(rules, symbol) THEN RulesOf(rules, symbol) ELSE <<>>
             f     == FirstOfProductions(rules, terminals, symbol, prods, 1,
                                         visited \cup {symbol}, first)
             f1    == IF symbol \in DOMAIN f THEN f ELSE Put(f, symbol, {})
         IN  [ret |-> f1[symbol], first |-> f1]

\* lines 58-64: the loop over the symbols of one production, with its else clause
FirstOfSymbols(rules, terminals, symbol, production, k, visited, first) ==
    IF k > Len(production)
    THEN Put(first, symbol, Get(first, symbol) \cup {Eps})
    ELSE LET r  == first_of(rules, terminals, production[k], visited, first)
             f1 == Put(r.first, symbol, Get(r.first, symbol) \cup (r.ret \ {Eps}))
         IN  IF Eps \notin r.ret THEN f1
             ELSE FirstOfSymbols(rules, terminals, symbol, production, k + 1, visited, f1)

\* line 57: the loop over the productions of the symbol
FirstOfProductions(rules, terminals, symbol, prods, n, visited, first) ==
    IF n > Len(prods) THEN first
    ELSE FirstOfProductions(rules, terminals, symbol, prods, n + 1, visited,
            FirstOfSymbols(rules, terminals, symbol, prods[n], 1, visited, first))

\* lines 68-69: the loop over self.non_terminals, a set, in iteration order
RECURSIVE FirstForAll(_, _, _, _, _)
FirstForAll(rules, terminals, nts, n, first) ==
    IF n > Len(nts) THEN first
    ELSE FirstForAll(rules, terminals, nts, n + 1,
            first_of(rules, terminals, nts[n], {}, first).first)

lalr_compute_first_sets(rules, terminals, non_terminals, order) ==
    FirstForAll(rules, terminals, InOrder(non_terminals, order), 1, EmptyDict)

EmptyLALRGrammar ==
    [rules |-> <<>>, start_symbol |-> "", terminals |-> {}, non_terminals |-> {},
     first_sets |-> EmptyDict, core_to_state |-> EmptyDict, transitions |-> <<>>,
     error |-> ""]

\* Grammar.__init__ of the LALR module
LALRGrammar(t, order) ==
    LET r == parse_grammar_input(t)
    IN  IF r.error # "" THEN [EmptyLALRGrammar EXCEPT !.error = r.error]
        ELSE IF r.rules = <<>> THEN [EmptyLALRGrammar EXCEPT !.error = "IndexError"]
        ELSE LET syms == get_symbols(r.rules)
             IN  [EmptyLALRGrammar EXCEPT
                    !.rules = r.rules,
                    !.start_symbol = r.rules[1][1],
                    !.terminals = syms[1],
                    !.non_terminals = syms[2],
                    !.first_sets = lalr_compute_first_sets(r.rules, syms[1], syms[2], order)]

\* the productions of the grammar in the order of get_production_number's count
AllProductions(rules) ==
    Flatten([n \in 1..Len(rules) |->
                [m \in 1..Len(rules[n][2]) |-> <<rules[n][1], rules[n][2][m]>>]])

\* Grammar.get_production_number of the LALR module
lalr_get_production_number(G, lhs, rhs) ==
    LET ps == AllProductions(G.rules)
    IN  IF \E n \in 1..Len(ps) : ps[n] = <<lhs, rhs>>
        THEN (CHOOSE n \in 1..Len(ps) :
                /\ ps[n] = <<lhs, rhs>>
                /\ \A m \in 1..(n - 1) : ps[m] # <<lhs, rhs>>) - 1
        ELSE -1

\* Grammar.get_production_number of src/LALR/rough.py: the position of the
\* left-hand side among the keys plus the position of the alternative
rough_get_production_number(G, lhs, rhs) ==
    IF \E n \in 1..Len(G.rules) : \E m \in 1..Len(G.rules[n][2]) :
            G.rules[n][1] = lhs /\ G.rules[n][2][m] = rhs
    THEN LET n == CHOOSE k \in 1..Len(G.rules) :
                    /\ G.rules[k][1] = lhs
                    /\ \E m \in 1..Len(G.rules[k][2]) : G.rules[k][2][m] = rhs
             m == CHOOSE j \in 1..Len(G.rules[n][2]) :
                    /\ G.rules[n][2][j] = rhs
                    /\ \A i \in 1..(j - 1) : G.rules[n][2][i] # rhs
         IN  (n - 1) + (m - 1)
    ELSE -1

\* parse_input, lines 69-82: the production the parser finds for a number
\* (<<>> when the count never reaches it)
production_numbered(G, production_num) ==
    IF production_num + 1 \in DOMAIN AllProductions(G.rules)
    THEN AllProductions(G.rules)[production_num + 1]
    ELSE <<>>

-----------------------------------------------------------------------------
(* LALR module: closure, goto, LR(1) states, merging (src/LALR/items.py) *)

Item(lhs, rhs, dot, lookahead) ==
    [lhs |-> lhs, rhs |-> rhs, dot |-> dot, lookahead |-> lookahead]

\* lines 45-58 of closure: the scan of beta; st = [first_of_beta, all_have_epsilon]
RECURSIVE BetaScan(_, _, _, _)
BetaScan(G, beta, k, st) ==
    IF k > Len(beta) THEN st
    ELSE IF beta[k] \in G.terminals
    THEN [first_of_beta |-> st.first_of_beta \cup {beta[k]}, all_have_epsilon |-> FALSE]
    ELSE LET first_beta_sym == Get(G.first_sets, beta[k])
         IN  IF Eps \notin first_beta_sym
             THEN [first_of_beta |-> st.first_of_beta \cup first_beta_sym,
                   all_have_epsilon |-> FALSE]
             ELSE BetaScan(G, beta, k + 1,
                    [first_of_beta |-> st.first_of_beta \cup (first_beta_sym \ {Eps}),
                     all_have_epsilon |-> TRUE])

\* a faulty variant of the lookahead computation: the item's own lookahead is
\* passed on even when beta cannot derive the empty string
NewLookaheadsAlwaysInherited(G, beta, lookahead) ==
    IF beta # <<>>
    THEN LET r == BetaScan(G, beta, 1, [first_of_beta |-> {}, all_have_epsilon |-> TRUE])
         IN  r.first_of_beta \cup {lookahead}
    ELSE {lookahead}

\* lines 40-67: the lookaheads of the items added for one item
NewLookaheads(G, beta, lookahead) ==
    IF beta # <<>>
    THEN LET r == BetaScan(G, beta, 1, [first_of_beta |-> {}, all_have_epsilon |-> TRUE])
         IN  IF r.all_have_epsilon THEN r.first_of_beta \cup {lookahead} ELSE r.first_of_beta
    ELSE {lookahead}

\* lines 26-75: the items one worklist item adds, whether or not already present
ClosureItemsFor(G, item) ==
    IF item.dot < Len(item.rhs) /\ item.rhs[item.dot + 1] \in G.non_terminals
    THEN LET symbol == item.rhs[item.dot + 1]
             beta   == SubSeq(item.rhs, item.dot + 2, Len(item.rhs))
             prods  == RulesOf(G.rules, symbol)
         IN  {Item(symbol, prods[n], 0, la) :
                n \in 1..Len(prods), la \in NewLookaheads(G, beta, item.lookahead)}
    ELSE {}

\* closure: the worklist loop; the set it returns does not depend on the
\* order in which the worklist is served, so the worklist is a set
RECURSIVE LALRClosureLoop(_, _, _)
LALRClosureLoop(G, closure_set, work) ==
    IF work = {} THEN closure_set
    ELSE LET new == (UNION {ClosureItemsFor(G, item) : item \in work}) \ closure_set
         IN  LALRClosureLoop(G, closure_set \cup new, new)

closure(G, items) == LALRClosureLoop(G, items, items)

goto(G, items, symbol) ==
    LET next_items == {[it EXCEPT !.dot = @ + 1] : it \in
                         {i \in items : i.dot < Len(i.rhs) /\ i.rhs[i.dot + 1] = symbol}}
    IN  IF next_items # {} THEN closure(G, next_items) ELSE {}

get_item_core(item) == <<item.lhs, item.rhs, item.dot>>

get_state_core(state) == {get_item_core(item) : item \in state}

\* the symbols that follow a dot in a state
DotSymbols(state) == {it.rhs[it.dot + 1] : it \in {i \in state : i.dot < Len(i.rhs)}}

\* generate_lr1_items, lines 96-101: the start state
StartState(G) ==
    closure(G, {Item(G.start_symbol, RulesOf(G.rules, G.start_symbol)[1], 0, EndMarker)})

\* lines 109-118: the loop over the symbols of one state; states is the list
RECURSIVE VisitSymbols(_, _, _, _, _)
VisitSymbols(G, state, symbols, k, st) ==
    IF k > Len(symbols) THEN st
    ELSE LET goto_state == goto(G, state, symbols[k])
         IN  VisitSymbols(G, state, symbols, k + 1,
                IF goto_state # {} /\ goto_state \notin Range(st.states)
                THEN [states |-> Append(st.states, goto_state), added |-> TRUE]
                ELSE st)

\* a faulty variant of the merge: a state whose core is already known replaces
\* the merged state instead of adding its lookaheads to it
MergeStateReplacing(result, core_to_state, state) ==
    LET state_core == get_state_core(state)
    IN  IF state_core \in DOMAIN core_to_state
        THEN [result |-> [result EXCEPT ![core_to_state[state_core] + 1] = state],
              core_to_state |-> core_to_state]
        ELSE [result |-> Append(result, state),
              core_to_state |-> Put(core_to_state, state_core, Len(result))]

\* a faulty variant of the merge: the core is never looked up, every state is
\* added as a new one
MergeStateAppending(result, core_to_state, state) ==
    [result |-> Append(result, state),
     core_to_state |-> Put(core_to_state, get_state_core(state), Len(result))]

\* generate_lalr1_items, lines 129-166: one canonical state folded into result
MergeState(result, core_to_state, state) ==
    LET state_core == get_state_core(state)
    IN  IF state_core \in DOMAIN core_to_state
        THEN LET existing_state_idx == core_to_state[state_core]
                 existing == result[existing_state_idx + 1]
                 core_to_lookaheads ==
                    [core \in get_state_core(existing) \cup state_core |->
                        {it.lookahead : it \in {i \in existing \cup state :
                                                    get_item_core(i) = core}}]
                 merged_state ==
                    UNION {{Item(core[1], core[2], core[3], la) :
                                la \in core_to_lookaheads[core]} :
                            core \in DOMAIN core_to_lookaheads}
             IN  [result |-> [result EXCEPT ![existing_state_idx + 1] = merged_state],
                  core_to_state |-> core_to_state]
        ELSE [result |-> Append(result, state),
              core_to_state |-> Put(core_to_state, state_core, Len(result))]

\* a faulty variant of lines 171-185: a transition is recorded only when the
\* goto of the merged state is itself, item for item, a merged state
MergedTransitionsOfEqualSets(G, result, core_to_state) ==
    [i \in 1..Len(result) |->
        LET syms == {sym \in DotSymbols(result[i]) : goto(G, result[i], sym) \in Range(result)}
        IN  [sym \in syms |-> core_to_state[get_state_core(goto(G, result[i], sym))]]]

\* lines 171-185: the transitions of the merged states
MergedTransitions(G, result, core_to_state) ==
    [i \in 1..Len(result) |->
        LET syms == {sym \in DotSymbols(result[i]) :
                        get_state_core(goto(G, result[i], sym)) \in DOMAIN core_to_state}
        IN  [sym \in syms |-> core_to_state[get_state_core(goto(G, result[i], sym))]]]

-----------------------------------------------------------------------------
(* LALR module: construct_parsing_tables (src/LALR/parsing_tables.py) *)

\* f"shift {next_state}" and f"reduce {prod_num}"
ShiftAction(next_state) == "shift " \o ToString(next_state)

ReduceAction(prod_num) == "reduce " \o ToString(prod_num)

\* lines 22-34: both tables hold an empty dict for every state index
LALREmptyTables(states) ==
    [EmptyTables EXCEPT
        !.action_table = [i \in 0..(Len(states) - 1) |-> EmptyDict],
        !.goto_table   = [i \in 0..(Len(states) - 1) |-> EmptyDict]]

\* a faulty variant of register_conflict: the conflict is not recorded
register_conflict_silent(T, state, symbol, action1, action2) == T

\* register_conflict
register_conflict(T, state, symbol, action1, action2) ==
    [T EXCEPT !.conflicts = Append(@, Conflict("Conflict", state, symbol, action1, action2))]

\* lines 45-65: the loop over the symbols that follow a dot in the state
RECURSIVE LALRTableSymbols(_, _, _, _, _, _)
LALRTableSymbols(T, G, state_idx, state, symbols, k) ==
    IF k > Len(symbols) THEN T
    ELSE LET symbol     == symbols[k]
             goto_state == goto(G, state, symbol)
             goto_core  == get_state_core(goto_state)
         IN  IF goto_state # {} /\ goto_core \in DOMAIN G.core_to_state
             THEN LET next_state == G.core_to_state[goto_core]
                  IN  IF symbol \in G.terminals \cup {EndMarker}
                      THEN LET action == ShiftAction(next_state)
                               T0 == Propose(T, state_idx, symbol, action)
                               T1 == IF symbol \in DOMAIN T0.action_table[state_idx]
                                     THEN register_conflict(T0, state_idx, symbol,
                                            T0.action_table[state_idx][symbol], action)
                                     ELSE T0
                           IN  LALRTableSymbols(
                                 [T1 EXCEPT !.action_table[state_idx] = Put(@, symbol, action)],
                                 G, state_idx, state, symbols, k + 1)
                      ELSE LALRTableSymbols(
                                 [T EXCEPT !.goto_table[state_idx] = Put(@, symbol, next_state)],
                                 G, state_idx, state, symbols, k + 1)
             ELSE LALRTableSymbols(T, G, state_idx, state, symbols, k + 1)

\* lines 71-75: the test that turns a completed item into Accept
IsAcceptCase(G, item) ==
    /\ item.lhs = G.start_symbol
    /\ item.dot = Len(item.rhs)
    /\ item.lookahead = EndMarker
    /\ Len(item.rhs) = 1
    /\ item.rhs[1] \in G.non_terminals

\* lines 68-84: the body of the loop over the items, for an item with the dot
\* at the end
LALRTableReduce(T, G, state_idx, item) ==
    IF IsAcceptCase(G, item)
    THEN [Propose(T, state_idx, EndMarker, "accept") EXCEPT
            !.action_table[state_idx] = Put(@, EndMarker, "accept")]
    ELSE LET prod_num == lalr_get_production_number(G, item.lhs, item.rhs)
             action   == ReduceAction(prod_num)
             T0 == Propose(T, state_idx, item.lookahead, action)
             T1 == IF item.lookahead \in DOMAIN T0.action_table[state_idx]
                   THEN register_conflict(T0, state_idx, item.lookahead,
                            T0.action_table[state_idx][item.lookahead], action)
                   ELSE T0
         IN  [T1 EXCEPT !.action_table[state_idx] = Put(@, item.lookahead, action)]

\* the items of a state on which the loop of lines 68-84 acts
CompletedItems(state) == {item \in state : item.dot = Len(item.rhs)}

-----------------------------------------------------------------------------
(* LALR module: parse_input (src/LALR/parser.py) *)

\* action.startswith(kind) and int(action.split()[1]): <<kind, number>>, the
\* number being the one whose decimal form the action string carries
ParseAction(action, numbers) ==
    IF action = "accept" THEN <<"accept", 0>>
    ELSE IF \E n \in numbers : action = ShiftAction(n)
    THEN <<"shift", CHOOSE n \in numbers : action = ShiftAction(n)>>
    ELSE IF \E n \in numbers : action = ReduceAction(n)
    THEN <<"reduce", CHOOSE n \in numbers : action = ReduceAction(n)>>
    ELSE <<"invalid", 0>>

\* the numbers an action string of these tables can carry
ActionNumbers(G, action_table) ==
    -1..(Cardinality(DOMAIN action_table) + Len(AllProductions(G.rules)))

\* lines 35-104: one iteration of the while loop
LALRParseStep(P, G, action_table, goto_table) ==
    LET current_state  == Last(P.stack)
        current_symbol == P.tokens[P.position + 1]
    IN  IF P.position >= Len(P.tokens)
        THEN CursorPastTokens(P)
        ELSE IF current_state \notin DOMAIN action_table
           \/ current_symbol \notin DOMAIN action_table[current_state]
        THEN MissingAction(P, "Error: No action defined")
        ELSE LET action == action_table[current_state][current_symbol]
                 parsed == ParseAction(action, ActionNumbers(G, action_table))
                 rec    == Step(P.stack, P.position, action)
                 prods  == AllProductions(G.rules)
             IN  IF parsed[1] = "accept"
                 THEN [P EXCEPT !.steps = Append(@, rec), !.outcome = "success"]
                 ELSE IF parsed[1] = "shift"
                 THEN [P EXCEPT !.steps = Append(@, rec),
                                !.stack = @ \o <<current_symbol, parsed[2]>>,
                                !.position = @ + 1]
                 ELSE IF parsed[1] = "reduce"
                 THEN IF parsed[2] + 1 \notin DOMAIN prods
                      THEN [P EXCEPT
                              !.steps = Append(@, Step(P.stack, P.position,
                                                       "Error: Invalid production number")),
                              !.outcome = "failure", !.error = "Invalid production number"]
                      ELSE LET lhs == prods[parsed[2] + 1][1]
                               rhs == prods[parsed[2] + 1][2]
                               popped == Pop(P.stack, 2 * Len(rhs))
                               prev_state == Last(popped)
                           IN  IF prev_state \notin DOMAIN goto_table
                                  \/ lhs \notin DOMAIN goto_table[prev_state]
                               THEN [P EXCEPT
                                      !.steps = Append(@, Step(P.stack, P.position,
                                                               "Error: No GOTO defined")),
                                      !.stack = Append(popped, lhs),
                                      !.outcome = "failure", !.error = "No GOTO defined"]
                               ELSE [P EXCEPT
                                      !.steps = Append(@, rec),
                                      !.stack = popped \o <<lhs, goto_table[prev_state][lhs]>>]
                 ELSE [P EXCEPT !.steps = Append(@, Step(P.stack, P.position,
                                                         "Error: Invalid action")),
                                !.outcome = "failure", !.error = "Invalid action"]

-----------------------------------------------------------------------------
(* The LR pipeline as a state machine (src/LR/lr1_parser_generator.py, main) *)

LRInit ==
    /\ mode = "LR"
    /\ text \in LRTexts
    /\ ord \in Orders(text)
    /\ pc = "grammar"
    /\ grammar = EmptyLRGrammar
    /\ first_sets = EmptyDict
    /\ automaton = EmptyAutomaton
    /\ worklist = <<>>
    /\ tables = EmptyTables
    /\ parser = IdleParser

\* grammar = Grammar(grammar_str)
LRConstruct ==
    /\ mode = "LR" /\ pc = "grammar"
    /\ grammar' = LRGrammar(text)
    /\ pc' = IF grammar'.error = "" THEN "first" ELSE "failed"
    /\ first_sets' = IF grammar'.error = "" THEN InitialFirst(grammar') ELSE first_sets
    /\ UNCHANGED <<mode, text, ord, automaton, worklist, tables, parser>>

\* compute_first_sets: one iteration of its while loop
LRFirstPass ==
    /\ mode = "LR" /\ pc = "first"
    /\ LET r == FirstPass(grammar, first_sets)
       IN  /\ first_sets' = r.first
           /\ pc' = IF r.changes THEN "first" ELSE "automaton_init"
    /\ UNCHANGED <<mode, text, ord, grammar, automaton, worklist, tables, parser>>

\* compute_lr1_automaton up to its while loop
LRAutomatonInit ==
    /\ mode = "LR" /\ pc = "automaton_init"
    /\ LET r == InitialAutomaton(grammar, first_sets)
       IN  /\ automaton' = [r.automaton EXCEPT !.collides = automaton.collides]
           /\ worklist' = r.worklist
    /\ pc' = "automaton"
    /\ UNCHANGED <<mode, text, ord, grammar, first_sets, tables, parser>>

\* compute_lr1_automaton: the while test succeeds, a state is popped
LRAutomatonPop ==
    /\ mode = "LR" /\ pc = "automaton" /\ automaton.symbols = <<>> /\ worklist # <<>>
    /\ LET r == PopState(automaton, worklist, ord)
       IN  automaton' = r.automaton /\ worklist' = r.worklist
    /\ UNCHANGED <<mode, text, ord, pc, grammar, first_sets, tables, parser>>

\* compute_lr1_automaton: one iteration of the loop over the symbols of the
\* popped state
LRAutomatonSymbol ==
    /\ mode = "LR" /\ pc = "automaton" /\ automaton.symbols # <<>>
    /\ LET items == compute_goto(automaton.states[automaton.state_idx[1] + 1].items,
                                 Head(automaton.symbols), grammar, first_sets)
       IN  \E hashed \in HashesFor(automaton, items) :
              LET r == SymbolIteration(Hashed(automaton, items, hashed), worklist,
                                       grammar, first_sets)
              IN  automaton' = r.automaton /\ worklist' = r.worklist
    /\ UNCHANGED <<mode, text, ord, pc, grammar, first_sets, tables, parser>>

\* compute_lr1_automaton returns; construct_parsing_table starts
LRAutomatonDone ==
    /\ mode = "LR" /\ pc = "automaton" /\ automaton.symbols = <<>> /\ worklist = <<>>
    /\ pc' = "table"
    /\ tables' = EmptyTables
    /\ UNCHANGED <<mode, text, ord, grammar, first_sets, automaton, worklist, parser>>

\* construct_parsing_table: one iteration of the loop over the items of a state
LRTableItemStep ==
    /\ mode = "LR" /\ pc = "table" /\ tables.state_idx < Len(automaton.states)
    /\ LET state == automaton.states[tables.state_idx + 1]
       IN  \E item \in state.items \ tables.visited :
              tables' = [LRTableItem(tables, tables.state_idx, state, item, grammar)
                            EXCEPT !.visited = @ \cup {item}]
    /\ UNCHANGED <<mode, text, ord, pc, grammar, first_sets, automaton, worklist, parser>>

\* construct_parsing_table: the goto entries of the state, then the next state
LRTableGotoStep ==
    /\ mode = "LR" /\ pc = "table" /\ tables.state_idx < Len(automaton.states)
    /\ LET state == automaton.states[tables.state_idx + 1]
       IN  /\ state.items = tables.visited
           /\ tables' = [LRTableGotos(tables, tables.state_idx, state, grammar)
                            EXCEPT !.visited = {}, !.state_idx = @ + 1]
    /\ UNCHANGED <<mode, text, ord, pc, grammar, first_sets, automaton, worklist, parser>>

\* construct_parsing_table returns
LRTableDone ==
    /\ mode = "LR" /\ pc = "table" /\ tables.state_idx = Len(automaton.states)
    /\ pc' = "ready"
    /\ UNCHANGED <<mode, text, ord, grammar, first_sets, automaton, worklist, tables, parser>>

\* the caller hands an input string and the two tables to test_input or
\* parse_input: the tables construct_parsing_table returned, or a goto table
\* that lacks one of their entries
LRParseStart ==
    /\ mode = "LR" /\ pc = "ready"
    /\ \E driver \in {"test_input", "parse_input"}, input \in Inputs(grammar.terminals),
          dropped \in {NoCell} \cup DOMAIN tables.goto_table :
          parser' = [StartParser(driver, input) EXCEPT !.dropped = dropped]
    /\ pc' = "parsing"
    /\ UNCHANGED <<mode, text, ord, grammar, first_sets, automaton, worklist, tables>>

\* one iteration of the parser's while loop
LRParseStep ==
    /\ mode = "LR" /\ pc = "parsing" /\ Len(parser.steps) < MaxSteps
    /\ LET entered == [parser EXCEPT !.iterations = @ + 1]
       IN  parser' = IF parser.driver = "parse_input"
                     THEN LRParseInputStep(entered, grammar, tables.action_table,
                                           PassedGoto(tables.goto_table, parser.dropped))
                     ELSE LRTestInputStep(entered, grammar, tables.action_table,
                                          PassedGoto(tables.goto_table, parser.dropped))
    /\ pc' = IF parser'.outcome = "running" THEN "parsing" ELSE "done"
    /\ UNCHANGED <<mode, text, ord, grammar, first_sets, automaton, worklist, tables>>

LRNext ==
    \/ LRConstruct
    \/ LRFirstPass
    \/ LRAutomatonInit
    \/ LRAutomatonPop
    \/ LRAutomatonSymbol
    \/ LRAutomatonDone
    \/ LRTableItemStep
    \/ LRTableGotoStep
    \/ LRTableDone
    \/ LRParseStart
    \/ LRParseStep

SpecLR == LRInit /\ [][LRNext]_vars

\* compute_lr1_automaton alone: the grammar, its FIRST sets and the automaton
LRAutomatonNext ==
    \/ LRConstruct
    \/ LRFirstPass
    \/ LRAutomatonInit
    \/ LRAutomatonPop
    \/ LRAutomatonSymbol
    \/ LRAutomatonDone

\* ENABLED <<LRAutomatonSymbol>>_vars: the step shortens automaton.symbols,
\* so it changes the state whenever its guard holds
SymbolDue == mode = "LR" /\ pc = "automaton" /\ automaton.symbols # <<>>

\* a call of compute_lr1_automaton runs on: the interpreter executes the
\* statement that is due, so each step of the while loop is weakly fair. The
\* last conjunct is WF_vars(LRAutomatonSymbol) with SymbolDue for its ENABLED.
FairSpecLR ==
    /\ LRInit
    /\ [][LRAutomatonNext]_vars
    /\ WF_vars(LRAutomatonPop)
    /\ WF_vars(LRAutomatonDone)
    /\ ([]<>(~SymbolDue) \/ []<><<LRAutomatonSymbol>>_vars)

\* a run of compute_lr1_automaton under a hash seed that makes two item sets
\* of the grammar share a hash
CollidingInit ==
    /\ mode = "LR"
    /\ text \in LRTexts
    /\ ord \in Orders(text)
    /\ pc = "grammar"
    /\ grammar = EmptyLRGrammar
    /\ first_sets = EmptyDict
    /\ automaton = [EmptyAutomaton EXCEPT !.collides = TRUE]
    /\ worklist = <<>>
    /\ tables = EmptyTables
    /\ parser = IdleParser

SpecLRHash == (LRInit \/ CollidingInit) /\ [][LRAutomatonNext]_vars

-----------------------------------------------------------------------------
(* The LALR pipeline as a state machine (src/LALR/main.py, main) *)

\* lr1_states: what generate_lr1_items returns; result, core_to_state: the
\* locals of generate_lalr1_items; passed: which of the two state collections
\* the caller hands to construct_parsing_tables
EmptyLALRAutomaton ==
    [lr1_states |-> <<>>, result |-> <<>>, core_to_state |-> EmptyDict, passed |-> "merged"]

\* the states argument of construct_parsing_tables
PassedStates(A) == IF A.passed = "canonical" THEN A.lr1_states ELSE A.result

Cursor(n, i, added) == [n |-> n, i |-> i, added |-> added]

LALRInit ==
    /\ mode = "LALR"
    /\ text \in LALRTexts
    /\ ord \in Orders(text)
    /\ pc = "grammar"
    /\ grammar = EmptyLALRGrammar
    /\ first_sets = EmptyDict
    /\ automaton = EmptyLALRAutomaton
    /\ worklist = Cursor(0, 0, FALSE)
    /\ tables = EmptyTables
    /\ parser = IdleParser

\* grammar = Grammar(grammar_str)
LALRConstruct ==
    /\ mode = "LALR" /\ pc = "grammar"
    /\ grammar' = LALRGrammar(text, ord)
    /\ pc' = IF grammar'.error = "" THEN "lr1_init" ELSE "failed"
    /\ UNCHANGED <<mode, text, ord, first_sets, automaton, worklist, tables, parser>>

\* generate_lalr1_items calls generate_lr1_items: the start state
LALRItemsInit ==
    /\ mode = "LALR" /\ pc = "lr1_init"
    /\ automaton' = [automaton EXCEPT !.lr1_states = <<StartState(grammar)>>]
    /\ worklist' = Cursor(1, 0, FALSE)
    /\ pc' = "lr1"
    /\ UNCHANGED <<mode, text, ord, grammar, first_sets, tables, parser>>

\* generate_lr1_items: one state of states.copy() visited
LALRVisitState ==
    /\ mode = "LALR" /\ pc = "lr1" /\ worklist.i < worklist.n
    /\ LET state == automaton.lr1_states[worklist.i + 1]
           r == VisitSymbols(grammar, state, InOrder(DotSymbols(state), ord), 1,
                             [states |-> automaton.lr1_states, added |-> worklist.added])
       IN  /\ automaton' = [automaton EXCEPT !.lr1_states = r.states]
           /\ worklist' = Cursor(worklist.n, worklist.i + 1, r.added)
    /\ UNCHANGED <<mode, text, ord, pc, grammar, first_sets, tables, parser>>

\* generate_lr1_items: the for loop ends; while added decides
LALRPassEnd ==
    /\ mode = "LALR" /\ pc = "lr1" /\ worklist.i = worklist.n
    /\ worklist' = Cursor(Len(automaton.lr1_states), 0, FALSE)
    /\ pc' = IF worklist.added THEN "lr1" ELSE "merge"
    /\ UNCHANGED <<mode, text, ord, grammar, first_sets, automaton, tables, parser>>

\* generate_lalr1_items: one canonical state folded into the merged states
LALRMergeStep ==
    /\ mode = "LALR" /\ pc = "merge" /\ worklist.i < Len(automaton.lr1_states)
    /\ LET r == MergeState(automaton.result, automaton.core_to_state,
                           automaton.lr1_states[worklist.i + 1])
       IN  automaton' = [automaton EXCEPT !.result = r.result,
                                          !.core_to_state = r.core_to_state]
    /\ worklist' = [worklist EXCEPT !.i = @ + 1]
    /\ UNCHANGED <<mode, text, ord, pc, grammar, first_sets, tables, parser>>

\* construct_parsing_tables is called with the states of generate_lr1_items on
\* a grammar that generate_lalr1_items has not touched: the grammar object has
\* no core_to_state attribute, and the first state with a symbol after a dot
\* makes line 52 raise AttributeError
LALRTablesUnmerged ==
    /\ mode = "LALR" /\ pc = "merge" /\ worklist.i = 0
    /\ \E i \in 1..Len(automaton.lr1_states) : DotSymbols(automaton.lr1_states[i]) # {}
    /\ automaton' = [automaton EXCEPT !.passed = "canonical"]
    /\ tables' = LALREmptyTables(automaton.lr1_states)
    /\ pc' = "raised"
    /\ UNCHANGED <<mode, text, ord, grammar, first_sets, worklist, parser>>

\* generate_lalr1_items: core_to_state and the transitions are stored on the
\* grammar; construct_parsing_tables is called with the merged states or with
\* those of generate_lr1_items, and initialises its tables
LALRMergeDone ==
    /\ mode = "LALR" /\ pc = "merge" /\ worklist.i = Len(automaton.lr1_states)
    /\ grammar' = [grammar EXCEPT
                    !.core_to_state = automaton.core_to_state,
                    !.transitions = MergedTransitions(grammar, automaton.result,
                                                      automaton.core_to_state)]
    /\ \E passed \in {"merged", "canonical"} :
          automaton' = [automaton EXCEPT !.passed = passed]
    /\ tables' = LALREmptyTables(PassedStates(automaton'))
    /\ pc' = "table"
    /\ UNCHANGED <<mode, text, ord, first_sets, worklist, parser>>

\* construct_parsing_tables: the shift and goto entries of one state
LALRTableSymbolsStep ==
    /\ mode = "LALR" /\ pc = "table"
    /\ tables.state_idx < Len(PassedStates(automaton)) /\ ~tables.shifted
    /\ LET state == PassedStates(automaton)[tables.state_idx + 1]
       IN  tables' = [LALRTableSymbols(tables, grammar, tables.state_idx, state,
                                       InOrder(DotSymbols(state), ord), 1)
                        EXCEPT !.shifted = TRUE]
    /\ UNCHANGED <<mode, text, ord, pc, grammar, first_sets, automaton, worklist, parser>>

\* construct_parsing_tables: one completed item of the state
LALRTableReduceStep ==
    /\ mode = "LALR" /\ pc = "table"
    /\ tables.state_idx < Len(PassedStates(automaton)) /\ tables.shifted
    /\ \E item \in CompletedItems(PassedStates(automaton)[tables.state_idx + 1]) \ tables.visited :
          tables' = [LALRTableReduce(tables, grammar, tables.state_idx, item)
                        EXCEPT !.visited = @ \cup {item}]
    /\ UNCHANGED <<mode, text, ord, pc, grammar, first_sets, automaton, worklist, parser>>

\* construct_parsing_tables: the loop over the states moves on
LALRTableNextState ==
    /\ mode = "LALR" /\ pc = "table"
    /\ tables.state_idx < Len(PassedStates(automaton)) /\ tables.shifted
    /\ CompletedItems(PassedStates(automaton)[tables.state_idx + 1]) \subseteq tables.visited
    /\ tables' = [tables EXCEPT !.state_idx = @ + 1, !.shifted = FALSE, !.visited = {}]
    /\ UNCHANGED <<mode, text, ord, pc, grammar, first_sets, automaton, worklist, parser>>

\* construct_parsing_tables returns
LALRTableDone ==
    /\ mode = "LALR" /\ pc = "table" /\ tables.state_idx = Len(PassedStates(automaton))
    /\ pc' = IF automaton.passed = "merged" THEN "ready" ELSE "ready_canonical"
    /\ UNCHANGED <<mode, text, ord, grammar, first_sets, automaton, worklist, tables, parser>>

\* the caller hands an input string to parse_input
LALRParseStart ==
    /\ mode = "LALR" /\ pc = "ready"
    /\ \E input \in Inputs(grammar.terminals) : parser' = StartParser("parse_input", input)
    /\ pc' = "parsing"
    /\ UNCHANGED <<mode, text, ord, grammar, first_sets, automaton, worklist, tables>>

\* one iteration of the parser's while loop
LALRParseLoop ==
    /\ mode = "LALR" /\ pc = "parsing" /\ Len(parser.steps) < MaxSteps
    /\ parser' = LALRParseStep([parser EXCEPT !.iterations = @ + 1], grammar,
                               tables.action_table, tables.goto_table)
    /\ pc' = IF parser'.outcome = "running" THEN "parsing" ELSE "done"
    /\ UNCHANGED <<mode, text, ord, grammar, first_sets, automaton, worklist, tables>>

LALRNext ==
    \/ LALRConstruct
    \/ LALRItemsInit
    \/ LALRVisitState
    \/ LALRPassEnd
    \/ LALRMergeStep
    \/ LALRTablesUnmerged
    \/ LALRMergeDone
    \/ LALRTableSymbolsStep
    \/ LALRTableReduceStep
    \/ LALRTableNextState
    \/ LALRTableDone
    \/ LALRParseStart
    \/ LALRParseLoop

SpecLALR == LALRInit /\ [][LALRNext]_vars

Init == LRInit \/ LALRInit

Next == LRNext \/ LALRNext

Spec == Init /\ [][Next]_vars

-----------------------------------------------------------------------------
(* Sentences of a grammar text, generated by expanding its productions *)

TextNonterminals(t) == {Declarations(t)[i].lhs : i \in 1..Len(Declarations(t))}

\* every alternative the text gives for nonterminal N
TextAlternatives(t, N) ==
    UNION {Range(Declarations(t)[i].alts) :
            i \in {j \in 1..Len(Declarations(t)) : Declarations(t)[j].lhs = N}}

\* the sentential forms one leftmost expansion step away from form
ExpandLeftmost(t, form) ==
    LET nts == {p \in 1..Len(form) : form[p] \in TextNonterminals(t)}
    IN  IF nts = {} THEN {form}
        ELSE LET p == CHOOSE q \in nts : \A r \in nts : q <= r
             IN  {SubSeq(form, 1, p - 1) \o alt \o SubSeq(form, p + 1, Len(form)) :
                    alt \in TextAlternatives(t, form[p])}

RECURSIVE Derive(_, _, _)
Derive(t, forms, depth) ==
    IF depth = 0 THEN forms
    ELSE Derive(t,
            forms \cup {f \in UNION {ExpandLeftmost(t, form) : form \in forms} :
                            Len(f) <= MaxInputLen + 1},
            depth - 1)

\* the token strings of at most MaxInputLen tokens derived from the start
\* symbol (the first left-hand side) in at most MaxDerivation steps
Sentences(t) ==
    {f \in Derive(t, {<<Declarations(t)[1].lhs>>}, MaxDerivation) :
        /\ Len(f) <= MaxInputLen
        /\ \A p \in 1..Len(f) : f[p] \notin TextNonterminals(t)}

\* the unambiguous LALR(1) grammars among the texts
RoundTripTexts == {TextAA, TextEps, TextExpr}

SentencesOf == [t \in RoundTripTexts |-> Sentences(t)]

\* the caller's tokens: the parser's tokens without the end marker it appended
Input == SubSeq(parser.tokens, 1, Len(parser.tokens) - 1)

\* the parser ran to its end on the tables the pipeline built
Finished == pc = "done" /\ parser.dropped = NoCell

TablesBuilt == pc \in {"ready", "parsing", "done"}

-----------------------------------------------------------------------------
(* Claims *)

\* C1: round trip through the LALR(1) pipeline: for an unambiguous LALR(1)
\* grammar in the documented format, every token string generated by
\* expanding productions from the start symbol is accepted by parse_input
\* driven by the tables built from generate_lalr1_items on the same grammar.
C1_RoundTripAccepted ==
    (mode = "LALR" /\ Finished /\ text \in RoundTripTexts /\ Input \in SentencesOf[text])
        => parser.outcome = "success"

\* C2: in the LR(1) pipeline on S -> A A, A -> a A | b the input a a b b is
\* accepted, and a a b is rejected at the end marker because ACTION has no
\* entry for (current state, end marker), not because a GOTO entry is missing.
C2_AcceptsAndRejects ==
    (mode = "LR" /\ Finished /\ text = TextAA) =>
        /\ Input = <<"a", "a", "b", "b">> => parser.outcome = "success"
        /\ Input = <<"a", "a", "b">> =>
              /\ parser.outcome = "failure"
              /\ parser.error = "No action defined"
              /\ parser.position = 3
              /\ parser.tokens[parser.position + 1] = EndMarker
              /\ <<Last(parser.stack), EndMarker>> \notin DOMAIN tables.action_table

C2_Witness ==
    /\ mode = "LR" /\ Finished /\ text = TextAA /\ parser.driver = "test_input"
    /\ Input = <<"a", "a", "b">> /\ parser.outcome = "failure"

\* the number of steps of the recorded trace that satisfy Test
CountSteps(Test(_)) == Cardinality({n \in 1..Len(parser.steps) : Test(parser.steps[n])})

IsShiftStep(st) == st.action[1] = "shift"

\* a Reduce step whose production has left-hand side lhs
IsReduceOf(st, lhs) ==
    st.action[1] = "reduce" /\ grammar.productions[st.action[2] + 1][1] = lhs

IsReduceA(st) == IsReduceOf(st, "A")

IsReduceSAA(st) ==
    st.action[1] = "reduce" /\ grammar.productions[st.action[2] + 1] = <<"S", <<"A", "A">> >>

StateCount ==
    IF mode = "LR" THEN Len(automaton.states) ELSE Len(automaton.result)

StateItems(idx) ==
    IF mode = "LR" THEN automaton.states[idx + 1].items ELSE automaton.result[idx + 1]

CellDefined(state, symbol) ==
    IF mode = "LR" THEN <<state, symbol>> \in DOMAIN tables.action_table
    ELSE /\ state \in DOMAIN tables.action_table
         /\ symbol \in DOMAIN tables.action_table[state]

CellAction(state, symbol) ==
    IF mode = "LR" THEN tables.action_table[<<state, symbol>>]
    ELSE tables.action_table[state][symbol]

AcceptAction == IF mode = "LR" THEN <<"accept", None>> ELSE "accept"

ReduceBy(item) ==
    IF mode = "LR" THEN <<"reduce", get_production_number(grammar, item.lhs, item.rhs)>>
    ELSE ReduceAction(lalr_get_production_number(grammar, item.lhs, item.rhs))

ItemDot(item) == IF mode = "LR" THEN item.dot_position ELSE item.dot

\* an item A -> . for the empty alternative of A
IsEpsilonItem(item) ==
    item.lhs = "A" /\ item.dot_position = 0 /\ item.rhs \in {<<>>, <<LREpsilon>>}

\* C4: in the LR(1) pipeline on S -> a A, A -> b | (empty) every state that
\* holds the item (A -> . , a) gets Reduce(A -> empty) in ACTION[state, a], a
\* Reduce by that production pops zero stack entries, and the input a is
\* accepted.
C4_EpsilonReduce ==
    (mode = "LR" /\ text = TextEps) =>
        /\ TablesBuilt =>
              \A idx \in 0..(StateCount - 1) : \A item \in StateItems(idx) :
                  IsEpsilonItem(item) =>
                      /\ CellDefined(idx, item.lookahead)
                      /\ CellAction(idx, item.lookahead) = ReduceBy(item)
                      /\ 2 * Len(item.rhs) = 0
        /\ (Finished /\ Input = <<"a">>) => parser.outcome = "success"

\* FIRST as the iterative compute_first_sets of the LR module computes it for
\* the same text, with the LR module's epsilon symbol written as the LALR
\* module's empty string
IterativeFirst ==
    [t \in LALRTexts |->
        LET G == LRGrammar(t)
            F == compute_first_sets(G)
        IN  [N \in G.non_terminals |->
                {IF x = LREpsilon THEN Eps ELSE x : x \in F[N]}]]

\* C5: the memoised recursive compute_first_sets of the LALR Grammar returns,
\* for every nonterminal and every visiting order, the set the iterative
\* compute_first_sets of the LR module returns (the least fixed point),
\* mutually left-recursive grammars such as A -> B a | c, B -> A b | d included.
C5_RecursiveFirstIsFixedPoint ==
    (mode = "LALR" /\ pc # "grammar" /\ grammar.error = "") =>
        \A N \in grammar.non_terminals :
            Get(grammar.first_sets, N) = IterativeFirst[text][N]

\* C6: whenever table construction proposes an action for a cell that already
\* holds a different action, the cell keeps the action that was written first.
C6_FirstWriterWins ==
    \A cell \in DOMAIN tables.first_written :
        /\ CellDefined(cell[1], cell[2])
        /\ CellAction(cell[1], cell[2]) = tables.first_written[cell]

\* two different actions were proposed for the cell
Contested(state, symbol) ==
    \E p, q \in tables.proposed :
        /\ p[1] = state /\ p[2] = symbol
        /\ q[1] = state /\ q[2] = symbol
        /\ p[3] # q[3]

\* the conflict list has an entry naming the cell
Reported(state, symbol) ==
    \E n \in 1..Len(tables.conflicts) :
        tables.conflicts[n].state = state /\ tables.conflicts[n].symbol = symbol

ProposedCells == {<<p[1], p[2]>> : p \in tables.proposed}

\* C7: a cell for which two different actions were proposed (any pair among
\* Shift, Reduce and Accept) always has an entry in the conflict list, and the
\* conflict list has entries only for such cells.
C7_ContestedIffReported ==
    /\ \A cell \in ProposedCells :
          Contested(cell[1], cell[2]) => Reported(cell[1], cell[2])
    /\ \A n \in 1..Len(tables.conflicts) :
          Contested(tables.conflicts[n].state, tables.conflicts[n].symbol)

\* the completed item of the production the initial item is built from, with
\* the end marker as lookahead
IsAugmentedCompleted(item) ==
    /\ item.lhs = grammar.start_symbol
    /\ item.rhs = (IF mode = "LR" THEN grammar.productions[1][2]
                   ELSE RulesOf(grammar.rules, grammar.start_symbol)[1])
    /\ ItemDot(item) = Len(item.rhs)
    /\ item.lookahead = EndMarker

\* C8: ACTION[state, $] is Accept exactly for the states that hold the
\* completed augmented item; every other completed item (A -> alpha . , a),
\* unit productions of the start symbol included, gives Reduce in
\* ACTION[state, a] (unless another action contests that cell).
C8_AcceptOnlyForAugmentedItem ==
    TablesBuilt =>
        \A idx \in 0..(StateCount - 1) :
            /\ (CellDefined(idx, EndMarker) /\ CellAction(idx, EndMarker) = AcceptAction)
                  <=> (\E item \in StateItems(idx) : IsAugmentedCompleted(item))
            /\ \A item \in StateItems(idx) :
                  (ItemDot(item) = Len(item.rhs) /\ ~IsAugmentedCompleted(item)
                        /\ ~Contested(idx, item.lookahead))
                    => /\ CellDefined(idx, item.lookahead)
                       /\ CellAction(idx, item.lookahead) = ReduceBy(item)

\* no cell of the ACTION table had two different actions proposed for it
NoContestedCell ==
    \A cell \in ProposedCells : ~Contested(cell[1], cell[2])

\* C9: for E -> E + T | T, T -> T * F | F, F -> ( E ) | id the tables built by
\* construct_parsing_tables from generate_lalr1_items have an empty conflict
\* list (and no cell was proposed two different actions).
C9_ExpressionGrammarHasNoConflicts ==
    (mode = "LALR" /\ text = TextExpr) =>
        /\ pc # "failed"
        /\ tables.conflicts = <<>>
        /\ pc \in {"table", "ready"} => NoContestedCell

C9_Witness ==
    /\ mode = "LALR" /\ text = TextExpr /\ pc = "ready"
    /\ Len(automaton.result) = 12
    /\ tables.state_idx = Len(automaton.result)
    /\ \E idx \in 0..11 : CellDefined(idx, "+") /\ CellAction(idx, "+") = ReduceAction(1)

ActionKind(action) ==
    IF mode = "LR" THEN action[1]
    ELSE ParseAction(action, ActionNumbers(grammar, tables.action_table))[1]

\* a conflict between a Shift and a Reduce
IsShiftReduce(c) ==
    IF mode = "LR" THEN c.kind = "Shift-reduce"
    ELSE {ActionKind(c.action1), ActionKind(c.action2)} = {"shift", "reduce"}

\* a conflict entry for a shift/reduce conflict on e whose cell holds one of
\* the actions proposed for it
IsElseConflict(c) ==
    /\ c.symbol = "e"
    /\ IsShiftReduce(c)
    /\ CellDefined(c.state, "e")
    /\ <<c.state, "e", CellAction(c.state, "e")>> \in tables.proposed
    /\ ActionKind(CellAction(c.state, "e")) \in {"shift", "reduce"}

\* C10: for the dangling-else grammar S -> i S | i S e S | a table
\* construction completes, the conflict list has at least one shift/reduce
\* conflict on e, and the conflicted cell holds exactly one action.
C10_DanglingElseConflict ==
    (text = TextElse) =>
        /\ pc # "failed"
        /\ TablesBuilt => \E n \in 1..Len(tables.conflicts) : IsElseConflict(tables.conflicts[n])

C10_Witness ==
    /\ text = TextElse /\ pc = "ready" /\ mode = "LALR"
    /\ \E n \in 1..Len(tables.conflicts) : IsElseConflict(tables.conflicts[n])

\* the number of canonical states generate_lalr1_items has folded so far
MergedSoFar ==
    IF mode # "LALR" THEN 0
    ELSE IF pc = "merge" THEN worklist.i
    ELSE IF pc \in {"table", "ready"} THEN Len(automaton.lr1_states)
    ELSE 0

\* C11: after generate_lalr1_items every canonical LR(1) state has a merged
\* state with the same core that holds every item of the canonical state: no
\* item is dropped and the merged core has no (production, dot) pair that the
\* canonical core lacks.
C11_MergeKeepsEveryItem ==
    \A k \in 1..MergedSoFar :
        \E m \in 1..Len(automaton.result) :
            /\ get_state_core(automaton.result[m]) = get_state_core(automaton.lr1_states[k])
            /\ automaton.lr1_states[k] \subseteq automaton.result[m]

\* two canonical states were merged into one that is larger than either
C11_Witness ==
    /\ mode = "LALR" /\ pc = "ready" /\ text = TextAA
    /\ \E k \in 1..Len(automaton.lr1_states), m \in 1..Len(automaton.result) :
          /\ get_state_core(automaton.result[m]) = get_state_core(automaton.lr1_states[k])
          /\ automaton.lr1_states[k] \subseteq automaton.result[m]
          /\ automaton.lr1_states[k] # automaton.result[m]

\* C12: generate_lalr1_items returns at most as many states as
\* generate_lr1_items does for the same grammar, and no two merged states
\* have the same core.
C12_MergedStatesFewerAndDistinct ==
    (mode = "LALR" /\ pc \in {"merge", "table", "ready"}) =>
        /\ Len(automaton.result) <= MergedSoFar
        /\ \A m, n \in 1..Len(automaton.result) :
              m # n => get_state_core(automaton.result[m]) # get_state_core(automaton.result[n])

C12_Witness ==
    /\ mode = "LALR" /\ pc = "ready" /\ text = TextExpr
    /\ Len(automaton.lr1_states) = 29
    /\ Len(automaton.result) = 12

\* the index that the state equal to items has among the passed states
PassedIndexOf(items) ==
    (CHOOSE k \in 1..Len(PassedStates(automaton)) : PassedStates(automaton)[k] = items) - 1

\* C13: construct_parsing_tables accepts either automaton: given the canonical
\* states of generate_lr1_items, every Shift(s) in ACTION[i, B] and every
\* GOTO[i, N] = s uses the index s that the state equal to goto(states[i],
\* symbol) has in the collection that was passed, and the call does not depend
\* on what an earlier generate_lalr1_items call stored on the grammar (it does
\* not fail when there was no such call).
C13_TablesIndexThePassedStates ==
    (mode = "LALR" /\ automaton.passed = "canonical") =>
        /\ pc # "raised"
        /\ pc = "ready_canonical" =>
              \A i \in 1..Len(automaton.lr1_states) :
                  \A symbol \in DotSymbols(automaton.lr1_states[i]) :
                      LET s == PassedIndexOf(goto(grammar, automaton.lr1_states[i], symbol))
                      IN  IF symbol \in grammar.non_terminals
                          THEN /\ symbol \in DOMAIN tables.goto_table[i - 1]
                               /\ tables.goto_table[i - 1][symbol] = s
                          ELSE <<i - 1, symbol, ShiftAction(s)>> \in tables.proposed

\* the numbering gives distinct productions distinct numbers, and the parser
\* resolves the number of every production back to that production
NumberingIsBijective(number(_, _, _)) ==
    LET prods == AllProductions(grammar.rules)
    IN  /\ \A p, q \in 1..Len(prods) :
              prods[p] # prods[q] =>
                  number(grammar, prods[p][1], prods[p][2]) # number(grammar, prods[q][1], prods[q][2])
        /\ \A p \in 1..Len(prods) :
              LET found == production_numbered(grammar, number(grammar, prods[p][1], prods[p][2]))
              IN  /\ found # <<>>
                  /\ found[1] = prods[p][1]
                  /\ Len(found[2]) = Len(prods[p][2])

\* C14: production numbers are a bijection with declaration order: distinct
\* productions get distinct numbers, and the number get_production_number
\* returns for a production is resolved by the parser back to the same
\* production (same left-hand side, same right-hand-side length), for
\* get_production_number of grammar.py and of rough.py.
C14_ProductionNumbersRoundTrip ==
    (mode = "LALR" /\ pc # "grammar" /\ grammar.error = "") =>
        /\ NumberingIsBijective(lalr_get_production_number)
        /\ NumberingIsBijective(rough_get_production_number)

\* every alternative the text declares for nonterminal N, in the order of the
\* text, over all the lines whose left-hand side is N
DeclaredAlternatives(t, N) ==
    Flatten([i \in 1..Len(Declarations(t)) |->
                IF Declarations(t)[i].lhs = N THEN Declarations(t)[i].alts ELSE <<>>])

\* the alternatives the constructed grammar holds for nonterminal N; the LR
\* module writes an empty alternative as the one symbol epsilon
ProductionsFor(N) ==
    IF mode = "LR"
    THEN [n \in 1..Len(get_productions_for(grammar, N)) |->
            LET rhs == get_productions_for(grammar, N)[n][2]
            IN  IF rhs = <<LREpsilon>> THEN <<>> ELSE rhs]
    ELSE IF HasRule(grammar.rules, N) THEN RulesOf(grammar.rules, N) ELSE <<>>

\* C15: grammar parsing loses no production: after a successful construction,
\* for every nonterminal N of the text, several lines with the same left-hand
\* side included, productions-for(N) is the list of all the alternatives the
\* text declares for N, in declaration order.
C15_NoProductionLost ==
    (pc # "grammar" /\ grammar.error = "") =>
        \A N \in TextNonterminals(text) : ProductionsFor(N) = DeclaredAlternatives(text, N)

\* the productions the text declares, in declaration order
DeclaredProductions(t) ==
    Flatten([i \in 1..Len(Declarations(t)) |->
                [j \in 1..Len(Declarations(t)[i].alts) |->
                    <<Declarations(t)[i].lhs, Declarations(t)[i].alts[j]>>]])

\* the list of productions of the constructed grammar, an empty right-hand
\* side written as the empty sequence
GrammarProductions ==
    IF mode = "LR"
    THEN [n \in 1..Len(grammar.productions) |->
            <<grammar.productions[n][1],
              IF grammar.productions[n][2] = <<LREpsilon>> THEN <<>>
              ELSE grammar.productions[n][2]>>]
    ELSE AllProductions(grammar.rules)

\* C16: after Grammar construction, production 0 is S' -> S for the declared
\* start symbol S, S' is not a nonterminal of the text, the grammar's start
\* symbol is S', and every declared production sits at its declaration index
\* plus one.
C16_GrammarIsAugmented ==
    (pc # "grammar" /\ grammar.error = "") =>
        LET prods    == GrammarProductions
            declared == DeclaredProductions(text)
        IN  /\ Len(prods) = Len(declared) + 1
            /\ prods[1] = <<grammar.start_symbol, <<Declarations(text)[1].lhs>> >>
            /\ grammar.start_symbol \notin TextNonterminals(text)
            /\ \A k \in 1..Len(declared) : prods[k + 1] = declared[k]

\* the parser is about to take a Reduce step whose GOTO lookup finds no entry
ReduceWithoutGoto ==
    /\ pc = "parsing" /\ Len(parser.steps) < MaxSteps
    /\ IF mode = "LR"
       THEN LET cell == <<Last(parser.stack),
                          IF parser.position < Len(parser.tokens)
                          THEN parser.tokens[parser.position + 1] ELSE EndMarker>>
            IN  /\ cell \in DOMAIN tables.action_table
                /\ tables.action_table[cell][1] = "reduce"
                /\ LET production == grammar.productions[tables.action_table[cell][2] + 1]
                       popped == Pop(parser.stack, 2 * Len(production[2]))
                   IN  <<Last(popped), production[1]>> \notin
                           DOMAIN PassedGoto(tables.goto_table, parser.dropped)
       ELSE LET state  == Last(parser.stack)
                symbol == parser.tokens[parser.position + 1]
                prods  == AllProductions(grammar.rules)
            IN  /\ state \in DOMAIN tables.action_table
                /\ symbol \in DOMAIN tables.action_table[state]
                /\ LET parsed == ParseAction(tables.action_table[state][symbol],
                                             ActionNumbers(grammar, tables.action_table))
                   IN  /\ parsed[1] = "reduce"
                       /\ parsed[2] + 1 \in DOMAIN prods
                       /\ LET popped == Pop(parser.stack, 2 * Len(prods[parsed[2] + 1][2]))
                          IN  \/ Last(popped) \notin DOMAIN tables.goto_table
                              \/ prods[parsed[2] + 1][1] \notin
                                     DOMAIN tables.goto_table[Last(popped)]

\* the entries of the stack that are states: those at the odd positions
StackStates(stack) == {stack[k] : k \in {j \in 1..Len(stack) : j % 2 = 1}}

\* C17: when a Reduce finds no GOTO entry for (exposed state, left-hand
\* side), the parser stops at that step with an outcome that tells the
\* missing GOTO apart from a missing ACTION; it never pushes an undefined
\* state and goes on.
C17_MissingGotoStopsTheParser ==
    [][ReduceWithoutGoto =>
          /\ parser'.outcome = "failure"
          /\ parser'.error \in {"No goto defined", "No GOTO defined"}
          /\ Len(parser'.steps) = Len(parser.steps) + 1
          /\ NoState \notin StackStates(parser'.stack)]_vars

\* ACTION has no entry for the state on top of the stack and the token at the
\* cursor, and parse_input is about to look it up
ActionAbsent ==
    /\ pc = "parsing" /\ parser.driver = "parse_input" /\ Len(parser.steps) < MaxSteps
    /\ parser.position < Len(parser.tokens)
    /\ ~CellDefined(Last(parser.stack), parser.tokens[parser.position + 1])

\* C18, on every state: the trace of parse_input has one entry per iteration
\* of the loop, and after a missing-ACTION failure its last entry is the
\* failing step: it shows the parser's stack and cursor and the error marker.
\* (A call that raised on reading the token returned no trace.)
C18_TraceEntryPerIteration ==
    (pc \in {"parsing", "done"} /\ parser.driver = "parse_input"
        /\ parser.outcome # "raised") =>
        /\ Len(parser.steps) = parser.iterations
        /\ parser.error = "No action defined" =>
              /\ pc = "done" /\ parser.outcome = "failure"
              /\ Last(parser.steps).stack = parser.stack
              /\ Last(parser.steps).position = parser.position
              /\ Last(parser.steps).action \in {<<"ERROR", "No action defined">>,
                                                "Error: No action defined"}

\* C18, on every step: when ACTION has no entry, parse_input returns failure
\* at that step with the stack and the cursor it had before the lookup.
C18_FailureLeavesStackAndCursor ==
    ActionAbsent =>
        /\ pc' = "done" /\ parser'.outcome = "failure"
        /\ parser'.error = "No action defined"
        /\ parser'.stack = parser.stack
        /\ parser'.position = parser.position
        /\ Len(parser'.steps) = Len(parser.steps) + 1

\* C18: when ACTION[state, token] is absent, parse_input returns failure as a
\* value at that step, without raising; the stack and the cursor are those
\* before the lookup; the trace holds one entry per loop iteration, the last
\* one being the failing step.
C18_MissingActionFailsInPlace ==
    []C18_TraceEntryPerIteration /\ [][C18_FailureLeavesStackAndCursor]_vars

C18_Witness ==
    /\ pc = "done" /\ parser.driver = "parse_input"
    /\ parser.error = "No action defined"
    /\ parser.iterations > 2
    /\ ~CellDefined(Last(parser.stack), parser.tokens[parser.position + 1])

\* the 1-based number, in the text, of its first line without an arrow
FirstNoArrowLine(t) ==
    CHOOSE i \in 1..Len(t) :
        /\ t[i].kind = "noarrow"
        /\ \A j \in 1..(i - 1) : t[j].kind # "noarrow"

\* C19: a non-blank, non-comment line without an arrow makes the Grammar
\* construction of the LR module fail with an error that names the 1-based
\* number of that line in the input text, blank and comment lines before it
\* counted, and the content of the line.
C19_ErrorNamesLineOfText ==
    (mode = "LR" /\ pc # "grammar" /\ \E i \in 1..Len(text) : text[i].kind = "noarrow") =>
        /\ pc = "failed"
        /\ grammar.error = "Missing production arrow"
        /\ grammar.error_line = FirstNoArrowLine(text)
        /\ grammar.error_text = text[FirstNoArrowLine(text)].lhs

\* FIRST(X) as the module computes it once the grammar's FIRST sets are there:
\* the entry of the dict compute_first_sets returned (LR module), the value
\* of first_of on the finished memo (LALR module)
FirstOf(X) ==
    IF mode = "LR" THEN first_sets[X]
    ELSE first_of(grammar.rules, grammar.terminals, X, {}, grammar.first_sets).ret

\* the grammar holds an empty alternative for nonterminal N
HasEmptyAlternative(N) ==
    IF mode = "LR"
    THEN \E n \in 1..Len(grammar.productions) : grammar.productions[n] = <<N, <<LREpsilon>> >>
    ELSE /\ HasRule(grammar.rules, N)
         /\ \E m \in 1..Len(RulesOf(grammar.rules, N)) : RulesOf(grammar.rules, N)[m] = <<>>

\* compute_first_sets has returned
FirstComputed ==
    /\ grammar.error = ""
    /\ IF mode = "LR" THEN pc \notin {"grammar", "first"} ELSE pc # "grammar"

ItemNext(item) ==
    IF ItemDot(item) < Len(item.rhs) THEN item.rhs[ItemDot(item) + 1] ELSE None

\* the symbols that follow the symbol after the dot
ItemBeta(item) == SubSeq(item.rhs, ItemDot(item) + 2, Len(item.rhs))

\* the epsilon of the module that runs
EpsilonSymbol == IF mode = "LR" THEN LREpsilon ELSE Eps

\* FIRST(X), the least fixed point: the set of the iterative computation
FixedPointFirst(X) ==
    IF X \in grammar.terminals THEN {X}
    ELSE IF mode = "LR" THEN first_sets[X]
    ELSE IterativeFirst[text][X]

\* FIRST-of-string(beta, a): FIRST minus epsilon of the symbols of beta up to
\* and including the first that cannot derive epsilon, plus a when beta is
\* empty or all its symbols can derive epsilon
RECURSIVE FirstOfString(_, _)
FirstOfString(beta, a) ==
    IF beta = <<>> THEN {a}
    ELSE (FixedPointFirst(Head(beta)) \ {EpsilonSymbol}) \cup
         (IF EpsilonSymbol \in FixedPointFirst(Head(beta))
          THEN FirstOfString(Tail(beta), a) ELSE {})

\* the right-hand sides the grammar holds for nonterminal B
AlternativesOf(B) ==
    IF mode = "LR"
    THEN {get_productions_for(grammar, B)[n][2] : n \in 1..Len(get_productions_for(grammar, B))}
    ELSE Range(RulesOf(grammar.rules, B))

\* the item (B -> gamma, dot 0, b) in the representation of the module that runs
FreshItem(B, gamma, b) ==
    IF mode = "LR" THEN LR1Item(<<B, gamma>>, 0, b) ELSE Item(B, gamma, 0, b)

\* the items the closure rule demands of an item set S
Demanded(S) ==
    UNION {{FreshItem(ItemNext(item), gamma, b) :
                gamma \in AlternativesOf(ItemNext(item)),
                b \in FirstOfString(ItemBeta(item), item.lookahead)} :
            item \in {it \in S : ItemNext(it) \in grammar.non_terminals}}

\* the least item set that contains S and everything the rule demands of it
RECURSIVE LeastClosed(_)
LeastClosed(S) == IF Demanded(S) \subseteq S THEN S ELSE LeastClosed(S \cup Demanded(S))

\* closure of the module that runs
ClosureOf(I) ==
    IF mode = "LR" THEN compute_closure(I, grammar, first_sets) ELSE closure(grammar, I)

\* the item sets of the states found so far
FoundStates ==
    IF mode = "LR" THEN {automaton.states[i].items : i \in 1..Len(automaton.states)}
    ELSE Range(automaton.lr1_states)

\* the item sets of S with the dot moved over symbol X
Advanced(S, X) ==
    {IF mode = "LR" THEN advance_dot(it) ELSE [it EXCEPT !.dot = @ + 1] :
        it \in {i \in S : ItemNext(i) = X}}

\* the start item
StartItem ==
    IF mode = "LR"
    THEN LR1Item(<<grammar.start_symbol, grammar.productions[1][2]>>, 0, EndMarker)
    ELSE Item(grammar.start_symbol, RulesOf(grammar.rules, grammar.start_symbol)[1], 0, EndMarker)

\* the item sets the automaton construction hands to closure
ClosureInputs ==
    {{StartItem}} \cup
    UNION {{Advanced(S, ItemNext(it)) : it \in {i \in S : ItemNext(i) # None}} :
            S \in FoundStates}

\* the automaton construction is running
ClosureApplied ==
    \/ mode = "LR" /\ pc = "automaton"
    \/ mode = "LALR" /\ pc = "lr1"

\* C21: closure(I) returns exactly the least item set that contains I and,
\* for every item (A -> alpha . B beta, a) in it with B a nonterminal, every
\* alternative B -> gamma and every b in FIRST-of-string(beta, a), the item
\* (B -> gamma, dot 0, b); closure is extensive and idempotent.  Checked for
\* compute_closure of the LR module and closure of the LALR module on every
\* item set the automaton construction hands to them.
C21_ClosureIsLeastClosedSet ==
    ClosureApplied =>
        \A I \in ClosureInputs :
            /\ ClosureOf(I) = LeastClosed(I)
            /\ I \subseteq ClosureOf(I)
            /\ ClosureOf(ClosureOf(I)) = ClosureOf(I)

\* C22: compute_lr1_automaton terminates for every grammar and every order
\* in which the symbols after the dots of a state are enumerated: once its
\* while loop has started, the worklist eventually is empty at the while test
\* and the function returns, also when the state added last has a transition
\* to itself and all its other successors exist already.
C22_AutomatonConstructionTerminates ==
    (mode = "LR" /\ pc = "automaton") ~> (mode = "LR" /\ pc = "table")

\* the case of C22: the state added last is popped, has a transition to
\* itself, and every successor of it exists already
C22_LastStateLoops ==
    /\ mode = "LR" /\ pc = "automaton" /\ automaton.symbols = <<>>
    /\ worklist = <<Len(automaton.states) - 1>>
    /\ LET last == Last(automaton.states)
       IN  /\ NextSymbols(last.items) # {}
           /\ \A X \in NextSymbols(last.items) : X \in DOMAIN last.transitions
           /\ \E X \in NextSymbols(last.items) :
                 last.transitions[X] = Len(automaton.states) - 1

-----------------------------------------------------------------------------
(* State numbering *)

\* compute_lr1_automaton, lines 241-266: the while loop, run to its end
RECURSIVE RunWorklist(_, _, _, _, _)
RunWorklist(A, wl, order, G, first) ==
    IF wl = <<>> THEN A
    ELSE LET r == AutomatonIteration(A, wl, order, G, first)
         IN  RunWorklist(r.automaton, r.worklist, order, G, first)

\* compute_lr1_automaton when the symbols of every state are enumerated in
\* order: the item sets of automaton.states, by index
LRStatesUnder(order) ==
    LET r == InitialAutomaton(grammar, first_sets)
        A == RunWorklist(r.automaton, r.worklist, order, grammar, first_sets)
    IN  [i \in 1..Len(A.states) |-> A.states[i].items]

\* generate_lr1_items, lines 108-116: one pass of the for loop over
\* states.copy(), from its state i (counted from 0) on; n = len(states.copy())
RECURSIVE VisitStates(_, _, _, _, _)
VisitStates(G, order, n, i, st) ==
    IF i = n THEN st
    ELSE VisitStates(G, order, n, i + 1,
                     VisitSymbols(G, st.states[i + 1],
                                  InOrder(DotSymbols(st.states[i + 1]), order), 1, st))

\* generate_lr1_items, lines 107-116: the while loop, run to its end
RECURSIVE WhileAdded(_, _, _)
WhileAdded(G, order, states) ==
    LET r == VisitStates(G, order, Len(states), 0, [states |-> states, added |-> FALSE])
    IN  IF r.added THEN WhileAdded(G, order, r.states) ELSE r.states

\* generate_lr1_items when the symbols of every state are enumerated in order
LALRStatesUnder(order) == WhileAdded(grammar, order, <<StartState(grammar)>>)

\* compute_lr1_automaton, or generate_lr1_items, has returned
CanonicalStatesBuilt ==
    \/ mode = "LR" /\ pc = "table" /\ tables = EmptyTables
    \/ mode = "LALR" /\ pc = "merge" /\ worklist.i = 0

\* the item sets of the canonical states, by index
CanonicalStates ==
    IF mode = "LR" THEN [i \in 1..Len(automaton.states) |-> automaton.states[i].items]
    ELSE automaton.lr1_states

\* C23: state numbering is deterministic: when the canonical collection has
\* been built, the item set at each index is the one the construction puts
\* there under every order in which the symbols that follow the dots of a
\* state are enumerated.
C23_StateNumberingIsDeterministic ==
    CanonicalStatesBuilt =>
        \A order \in Orders(text) :
            CanonicalStates = (IF mode = "LR" THEN LRStatesUnder(order)
                               ELSE LALRStatesUnder(order))

\* the collection under the order of the run is the one the model recomputes
C23_SameOrderSameNumbering ==
    CanonicalStatesBuilt =>
        CanonicalStates = (IF mode = "LR" THEN LRStatesUnder(ord) ELSE LALRStatesUnder(ord))

\* the states are the same set under every order
C23_SameStatesUnderEveryOrder ==
    CanonicalStatesBuilt =>
        \A order \in Orders(text) :
            Range(CanonicalStates) = Range(IF mode = "LR" THEN LRStatesUnder(order)
                                           ELSE LALRStatesUnder(order))

-----------------------------------------------------------------------------
(* Identity of states *)

\* C24: a goto result is taken for present only when a state has exactly its
\* item set: the index add_state returned for the item set goto(i, X), which
\* is recorded as transitions[X] of state i, is the index of a state with that
\* item set, and no two entries of automaton.states have equal item sets.
C24_AddStateIdentifiesByItemSet ==
    (mode = "LR" /\ pc \in {"automaton", "table"}) =>
        /\ \A i \in 1..Len(automaton.states) :
              \A X \in DOMAIN automaton.states[i].transitions :
                  automaton.states[automaton.states[i].transitions[X] + 1].items
                      = compute_goto(automaton.states[i].items, X, grammar, first_sets)
        /\ \A i, j \in 1..Len(automaton.states) :
              i # j => automaton.states[i].items # automaton.states[j].items

\* add_state was offered an item set whose hash is in state_map for another
\* item set
C24_HashCollision ==
    /\ mode = "LR" /\ pc = "automaton"
    /\ automaton.collisions # EmptyDict

\* without a collision of hashes add_state identifies states by item set
C24_HoldsWithoutCollision == automaton.collisions = EmptyDict => C24_AddStateIdentifiesByItemSet

-----------------------------------------------------------------------------
(* Transitions of the merged states *)

\* generate_lalr1_items has returned
MergedStatesBuilt == mode = "LALR" /\ pc = "table"

\* the canonical states that were folded into merged state i (counted from 1)
FoldedInto(i) ==
    {c \in Range(automaton.lr1_states) :
        get_state_core(c) = get_state_core(automaton.result[i])}

\* C25: when generate_lalr1_items has recomputed the transitions, a
\* transition is recorded for every merged state and every symbol after a dot
\* of it: the core of goto(merged state, symbol) is the core of a merged
\* state, and the recorded target is the merged index of goto(c, symbol) for
\* every canonical state c folded into the merged state.
C25_MergedTransitionsAreTotalAndConsistent ==
    MergedStatesBuilt =>
        \A i \in 1..Len(automaton.result) :
            /\ DOMAIN grammar.transitions[i] = DotSymbols(automaton.result[i])
            /\ \A sym \in DotSymbols(automaton.result[i]) :
                  /\ get_state_core(goto(grammar, automaton.result[i], sym))
                        \in DOMAIN grammar.core_to_state
                  /\ \A c \in FoldedInto(i) :
                        LET goto_core == get_state_core(goto(grammar, c, sym))
                        IN  /\ goto_core \in DOMAIN grammar.core_to_state
                            /\ grammar.transitions[i][sym] = grammar.core_to_state[goto_core]

\* a merged state into which several canonical states were folded has a
\* symbol after a dot, and its goto on it is not, item for item, a merged state
C25_Witness ==
    /\ MergedStatesBuilt
    /\ \E i \in 1..Len(automaton.result) :
          /\ Cardinality(FoldedInto(i)) > 1
          /\ \E sym \in DotSymbols(automaton.result[i]) :
                /\ sym \in DOMAIN grammar.transitions[i]
                /\ goto(grammar, automaton.result[i], sym) \notin Range(automaton.result)

-----------------------------------------------------------------------------
(* The finished LR(1) automaton *)

\* compute_lr1_automaton has returned
AutomatonFinished == mode = "LR" /\ pc = "table"

\* the item (S' -> . S, $): S' the start symbol of the augmented grammar, S
\* the left-hand side of the first rule of the text
AugmentedStartItem ==
    LR1Item(<<grammar.start_symbol, <<RuleLines(text)[1].lhs>> >>, 0, EndMarker)

-----------------------------------------------------------------------------
(* The parser's stack *)

\* the parser is at the start of an iteration of its while loop, on the
\* tables the pipeline built: those construct_parsing_table returned, or
\* those of construct_parsing_tables for the merged states
AtLoopStart ==
    /\ pc = "parsing" /\ parser.outcome = "running"
    /\ parser.dropped = NoCell
    /\ mode = "LALR" => automaton.passed = "merged"

\* the state indices that are rows of the tables
TableRows ==
    IF mode = "LR" THEN 0..(Len(automaton.states) - 1) ELSE DOMAIN tables.action_table

\* the positions of the stack that hold states, and those that hold symbols
StatePositions(stack) == {k \in 1..Len(stack) : k % 2 = 1}

SymbolPositions(stack) == {k \in 1..Len(stack) : k % 2 = 0}

\* the lengths of the right-hand sides the coming iteration reduces by: that
\* of production p when ACTION[top state, current token] is Reduce(p)
PendingReduce ==
    LET state  == Last(parser.stack)
        symbol == IF parser.position < Len(parser.tokens)
                  THEN parser.tokens[parser.position + 1] ELSE EndMarker
    IN  IF parser.position >= Len(parser.tokens) /\ parser.driver = "parse_input"
        THEN {}
        ELSE IF mode = "LR"
        THEN IF <<state, symbol>> \in DOMAIN tables.action_table
                /\ tables.action_table[<<state, symbol>>][1] = "reduce"
             THEN {Len(grammar.productions[tables.action_table[<<state, symbol>>][2] + 1][2])}
             ELSE {}
        ELSE IF state \in DOMAIN tables.action_table
                /\ symbol \in DOMAIN tables.action_table[state]
             THEN LET parsed == ParseAction(tables.action_table[state][symbol],
                                            ActionNumbers(grammar, tables.action_table))
                      prods  == AllProductions(grammar.rules)
                  IN  IF parsed[1] = "reduce" /\ parsed[2] + 1 \in DOMAIN prods
                      THEN {Len(prods[parsed[2] + 1][2])}
                      ELSE {}
             ELSE {}

\* C27: on the tables the pipeline built and for any input, at the start of
\* every iteration of the parser's loop the stack has odd length, its bottom
\* entry is state 0, states and grammar symbols alternate, and the top entry
\* is a state index that is a row of the tables; a Reduce by a production
\* with k symbols on its right-hand side finds at least 2k + 1 entries, so
\* the bottom state is never popped.
C27_StackAlternatesAboveStateZero ==
    AtLoopStart =>
        /\ Len(parser.stack) % 2 = 1
        /\ parser.stack[1] = 0
        /\ \A k \in StatePositions(parser.stack) : parser.stack[k] \in TableRows
        /\ \A k \in SymbolPositions(parser.stack) :
              parser.stack[k] \in grammar.terminals \cup grammar.non_terminals
        /\ \A k \in PendingReduce : Len(parser.stack) >= 2 * k + 1

\* the loop is about to reduce by a production with two or more symbols on
\* a stack that holds more than these symbols and their states
C27_Witness ==
    /\ AtLoopStart
    /\ \E k \in PendingReduce : k >= 2 /\ Len(parser.stack) > 2 * k + 1

-----------------------------------------------------------------------------
(* Termination of the parser *)

\* the configurations in which the parser entered its loop so far: each
\* recorded step holds the stack and the cursor of the start of its iteration
Configurations == [i \in 1..Len(parser.steps) |->
                      <<parser.steps[i].stack, parser.steps[i].position>>]

\* C28: every parser run terminates, on every table pair the construction
\* produced and every finite token sequence. An iteration of the loop is a
\* function of the stack and the cursor alone (tokens, tables and grammar are
\* fixed), so a run that enters the loop twice in the same configuration
\* repeats for ever: in a run that terminates no configuration recurs.
C28_ParserRunsTerminate ==
    (pc \in {"parsing", "done"} /\ parser.dropped = NoCell) =>
        \A i, j \in 1..Len(parser.steps) :
            i < j => Configurations[i] # Configurations[j]

\* the same for the runs of the LALR module alone; it fails as well
C28_LALRParserRunsTerminate == mode = "LALR" => C28_ParserRunsTerminate

-----------------------------------------------------------------------------
(* The cursor and the end marker *)

\* the cursor (counted from 0) of the end marker the parser appended
AppendedEndMarker == Len(parser.tokens) - 1

\* the parser returned success with the cursor on the end marker it appended,
\* every token of the caller shifted
SuccessAtTheEnd ==
    (pc = "done" /\ parser.outcome = "success") =>
        /\ parser.position = AppendedEndMarker
        /\ Cardinality({i \in 1..(Len(parser.steps) - 1) :
                           parser.steps[i + 1].position = parser.steps[i].position + 1})
              = AppendedEndMarker

\* the cursor is not behind the end marker the parser appended
CursorWithinTokens ==
    pc \in {"parsing", "done"} => parser.position <= AppendedEndMarker

\* C29: whenever the parser returns success, every token of the caller has
\* been shifted and the cursor is on the one end marker the parser appended
\* itself, for every whitespace-separated input string; and the cursor never
\* moves past the appended end marker.
C29_SuccessOnlyAtTheAppendedEndMarker == SuccessAtTheEnd /\ CursorWithinTokens

-----------------------------------------------------------------------------
(* Terminals and nonterminals *)

\* Grammar(grammar_str) of the LR module has returned a grammar
LRGrammarConstructed == mode = "LR" /\ pc # "grammar" /\ grammar.error = ""

\* C30: after the construction of a Grammar, parsing and augmentation, the
\* sets terminals and non_terminals are disjoint: every symbol that is a
\* left-hand side, and the augmented start symbol, is in non_terminals only,
\* also when it occurred in a right-hand side before the line that defines it.
C30_TerminalsAndNonterminalsAreDisjoint ==
    LRGrammarConstructed =>
        /\ grammar.terminals \cap grammar.non_terminals = {}
        /\ \A X \in TextNonterminals(text) \cup {grammar.start_symbol} :
              X \in grammar.non_terminals /\ X \notin grammar.terminals

\* the left-hand sides of the text are in non_terminals only
C30_LeftHandSidesAreNonterminalsOnly ==
    LRGrammarConstructed =>
        \A X \in TextNonterminals(text) :
            X \in grammar.non_terminals /\ X \notin grammar.terminals

====
